---------------------------- MODULE Spec2Model ----------------------------
(***************************************************************************)
(* Expert finder (src/app.py): a search over a skills table and an         *)
(* opportunity table, the parsing of array-like text fields, the matching  *)
(* of skills against search terms, the relevance score and the result      *)
(* aggregation with its filters.                                           *)
(*                                                                         *)
(* Python values are tagged records [kind, val]: None/NaN is NullV, a      *)
(* string is Str(s) with s its sequence of characters, a number is Num(n), *)
(* a date is Date(d) with d a day number, a list of strings is a record    *)
(* of kind "list" whose val is the sequence of its elements.               *)
(***************************************************************************)
EXTENDS Integers, Sequences, FiniteSets, TLC

VARIABLES
    \* array-field parsing (extract_relevant_skills lines 267-283)
    field_value, skill_matches, parse_pc,
    \* calculate_relevance_score: its argument, its locals and its result
    expert_data, opp_score, total_acv, closed_won_count, relevance_score, score_pc,
    \* extract_relevant_skills: its arguments and its result
    extract_row, extract_terms, skills_found, extract_pc,
    \* the search of main(): the two tables, the queries that fail, the widgets
    skills_table, opportunity_table, sql_errors, search_input, filters,
    \* the argument-free cached queries whose result is still stored
    cached_lists,
    \* its locals: the query results, the skills extracted per row, experts_data
    \* after the linking and after the date range filter, the sorted result
    freestyle_df, salesforce_df, row_skills, experts_data, date_filtered, sorted_experts,
    \* the messages shown, the queries run, the position in the script
    notices, queries, main_pc,
    \* st.cache_data: the stored results, the time in seconds, the last call
    \* of a cached method and the number of calls made
    cache_store, cache_now, cache_call, cache_count

parseVars == <<field_value, skill_matches, parse_pc>>
scoreVars == <<expert_data, opp_score, total_acv, closed_won_count,
               relevance_score, score_pc>>
extractVars == <<extract_row, extract_terms, skills_found, extract_pc>>
mainVars == <<skills_table, opportunity_table, sql_errors, search_input, filters, cached_lists,
              freestyle_df, salesforce_df, row_skills, experts_data, date_filtered,
              sorted_experts, notices, queries, main_pc>>
cacheVars == <<cache_store, cache_now, cache_call, cache_count>>
vars == <<parseVars, scoreVars, extractVars, mainVars, cacheVars>>

---------------------------------------------------------------------------
(* Python values *)

NullV == [kind |-> "null", val |-> <<>>]
Str(s) == [kind |-> "str", val |-> s]
Num(n) == [kind |-> "num", val |-> <<n>>]
Date(d) == [kind |-> "date", val |-> <<d>>]

IsNull(v) == v.kind = "null"
IsStr(v) == v.kind = "str"

---------------------------------------------------------------------------
(* Strings as sequences of characters *)

LowerLetters == <<"a","b","c","d","e","f","g","h","i","j","k","l","m",
                  "n","o","p","q","r","s","t","u","v","w","x","y","z">>
UpperLetters == <<"A","B","C","D","E","F","G","H","I","J","K","L","M",
                  "N","O","P","Q","R","S","T","U","V","W","X","Y","Z">>

\* str.upper() on one character
UpperChar(c) ==
    IF \E i \in 1..Len(LowerLetters) : LowerLetters[i] = c
    THEN UpperLetters[CHOOSE i \in 1..Len(LowerLetters) : LowerLetters[i] = c]
    ELSE c

\* str.upper()
Upper(s) == [i \in 1..Len(s) |-> UpperChar(s[i])]

\* the characters str.strip() removes
Whitespace == {" ", "\n", "\t"}

\* str.strip(chars): drop leading and trailing characters that are in chars
StripChars(s, chars) ==
    LET keep == {i \in 1..Len(s) : s[i] \notin chars}
    IN  IF keep = {} THEN <<>>
        ELSE LET lo == CHOOSE i \in keep : \A j \in keep : i <= j
                 hi == CHOOSE i \in keep : \A j \in keep : i >= j
             IN  SubSeq(s, lo, hi)

\* str.strip()
Strip(s) == StripChars(s, Whitespace)

\* t in s (substring test)
Contains(s, t) ==
    \E i \in 0..(Len(s) - Len(t)) : SubSeq(s, i + 1, i + Len(t)) = t

\* c in s (character test)
HasChar(s, c) == \E i \in 1..Len(s) : s[i] = c

\* s.startswith(c), s.endswith(c) for a one-character c
StartsWith(s, c) == Len(s) >= 1 /\ s[1] = c
EndsWith(s, c) == Len(s) >= 1 /\ s[Len(s)] = c

\* index of the first q at or after position from, 0 when there is none
FindFrom(s, q, from) ==
    IF \E i \in from..Len(s) : s[i] = q
    THEN CHOOSE i \in from..Len(s) : s[i] = q /\ \A j \in from..(i - 1) : s[j] # q
    ELSE 0

\* re.findall(q + "([^" + q + "]*)" + q, s) scanning from position from:
\* the texts between an opening q and the next q, left to right
RECURSIVE FindAllFrom(_, _, _)
FindAllFrom(s, q, from) ==
    LET open == FindFrom(s, q, from)
    IN  IF open = 0 THEN <<>>
        ELSE LET close == FindFrom(s, q, open + 1)
             IN  IF close = 0 THEN <<>>
                 ELSE <<Str(SubSeq(s, open + 1, close - 1))>>
                          \o FindAllFrom(s, q, close + 1)

FindAllQuoted(s, q) == FindAllFrom(s, q, 1)

---------------------------------------------------------------------------
(* Array-field parsing: the steps repeated for every array column *)

\* a variant that looks for single quotes before double quotes
ParseTextSingleQuotesFirst(skill_str) ==
    IF StartsWith(skill_str, "[") /\ EndsWith(skill_str, "]")
    THEN LET clean_skills == StripChars(skill_str, {"[", "]"})
         IN  IF HasChar(clean_skills, "'")
             THEN FindAllQuoted(clean_skills, "'")
             ELSE IF HasChar(clean_skills, "\"")
             THEN FindAllQuoted(clean_skills, "\"")
             ELSE IF Strip(clean_skills) # <<>>
                  THEN <<Str(Strip(clean_skills))>> ELSE <<>>
    ELSE IF Strip(skill_str) # <<>> THEN <<Str(Strip(skill_str))>> ELSE <<>>

\* lines 272-281: the text branch
ParseText(skill_str) ==
    IF StartsWith(skill_str, "[") /\ EndsWith(skill_str, "]")
    THEN LET clean_skills == StripChars(skill_str, {"[", "]"})
         IN  IF HasChar(clean_skills, "\"")
             THEN FindAllQuoted(clean_skills, "\"")
             ELSE IF HasChar(clean_skills, "'")
             THEN FindAllQuoted(clean_skills, "'")
             ELSE IF Strip(clean_skills) # <<>>
                  THEN <<Str(Strip(clean_skills))>> ELSE <<>>
    ELSE IF Strip(skill_str) # <<>> THEN <<Str(Strip(skill_str))>> ELSE <<>>

\* pd.notna(row[col]) and row[col]: the guard of line 267
FieldPresent(v) == ~IsNull(v) /\ ~(IsStr(v) /\ v.val = <<>>)

\* lines 267-283: the elements of one array field, none when the guard fails
ParseArrayField(v) ==
    IF ~FieldPresent(v) THEN <<>>
    ELSE IF IsStr(v) THEN ParseText(v.val)
    ELSE IF v.kind = "list" THEN v.val
    ELSE <<>>

\* line 267, pd.notna(row[col]) and row[col]: whether the guard can raise.
\* On a list pd.notna gives an array of one flag per element, and the truth
\* value of an array of two or more flags is a ValueError; the truth value of
\* an empty array is False or a ValueError, depending on the numpy installed.
NotnaRaises(v) ==
    IF v.kind # "list" \/ Len(v.val) = 1 THEN {FALSE}
    ELSE IF Len(v.val) = 0 THEN {FALSE, TRUE}
    ELSE {TRUE}

---------------------------------------------------------------------------
(* Specification of the parsing steps alone: any text value is parsed *)

MaxTextLen == 4

TextAlphabet == {"[", "]", "\"", "'", "a", " "}

RECURSIVE TextsUpTo(_)
TextsUpTo(n) ==
    IF n = 0 THEN {<<>>}
    ELSE LET shorter == TextsUpTo(n - 1)
         IN  shorter \cup {Append(t, c) : t \in {u \in shorter : Len(u) = n - 1},
                                           c \in TextAlphabet}

Txt_AB == <<"[", "\"", "A", "\"", ",", "\"", "B", "\"", "]">>
Txt_x == <<"[", "'", "x", "'", "]">>
Txt_plain == <<"p", "l", "a", "i", "n">>
Txt_its == <<"[", "\"", "i", "t", "'", "s", "\"", "]">>
Txt_padded == <<"[", " ", "'", "x", " ", "y", "'", ",", " ", "'", "z", "'", " ", "]">>

ParseInputs ==
    {NullV} \cup {Str(t) : t \in TextsUpTo(MaxTextLen)
                                  \cup {Txt_AB, Txt_x, Txt_plain, Txt_its, Txt_padded}}

ParseStart ==
    /\ field_value \in ParseInputs
    /\ skill_matches = <<>>
    /\ parse_pc = "read"

ParseIdle ==
    /\ field_value = NullV
    /\ skill_matches = <<>>
    /\ parse_pc = "off"

\* lines 267-283 run on the value of one column
ParseField ==
    /\ parse_pc = "read"
    /\ \E raises \in NotnaRaises(field_value) :
           IF raises
           THEN skill_matches' = <<>> /\ parse_pc' = "raised"
           ELSE skill_matches' = ParseArrayField(field_value) /\ parse_pc' = "parsed"
    /\ UNCHANGED field_value

---------------------------------------------------------------------------
(* calculate_relevance_score (lines 390-455) *)

Min(a, b) == IF a <= b THEN a ELSE b

Txt_CLOSED_WON == <<"C","L","O","S","E","D"," ","W","O","N">>

\* line 425: opp.get('stage', '').upper().find('CLOSED WON') != -1
\* for a stage that is text (on None the call of upper() raises)
IsClosedWon(stage) == IsStr(stage) /\ Contains(Upper(stage.val), Txt_CLOSED_WON)

\* line 431: amount and amount > 0 (None is falsy, NaN > 0 is False)
AmountCounts(amount) == amount.kind = "num" /\ amount.val[1] # 0 /\ amount.val[1] > 0

\* a variant that adds up the bonus of every threshold reached
DealSizeBonusCumulative(amount) ==
    (IF amount >= 1000000 THEN 8 ELSE 0) + (IF amount >= 500000 THEN 5 ELSE 0)
        + (IF amount >= 100000 THEN 2 ELSE 0)

\* lines 434-439: bonus points based on deal size
DealSizeBonus(amount) ==
    IF amount >= 1000000 THEN 8
    ELSE IF amount >= 500000 THEN 5
    ELSE IF amount >= 100000 THEN 2
    ELSE 0

\* lines 421-439: one pass of the loop body over the running locals
ScoreOneOpportunity(acc, opp) ==
    LET won == IsClosedWon(opp.stage)
        counts == AmountCounts(opp.amount)
    IN  [opp_score |-> acc.opp_score + 2 + (IF won THEN 5 ELSE 0)
                         + (IF counts THEN DealSizeBonus(opp.amount.val[1]) ELSE 0),
         total_acv |-> acc.total_acv + (IF counts THEN opp.amount.val[1] ELSE 0),
         closed_won_count |-> acc.closed_won_count + (IF won THEN 1 ELSE 0)]

\* lines 416-439: the loop over the first n opportunities
RECURSIVE ScoreOpportunities(_, _)
ScoreOpportunities(opportunities, n) ==
    IF n = 0 THEN [opp_score |-> 0, total_acv |-> 0, closed_won_count |-> 0]
    ELSE ScoreOneOpportunity(ScoreOpportunities(opportunities, n - 1), opportunities[n])

\* lines 442-445: additional bonus for multiple wins
MultiWinBonus(won_count) ==
    IF won_count >= 3 THEN 10
    ELSE IF won_count >= 2 THEN 5
    ELSE 0

\* lines 448-451: ACV portfolio bonus
PortfolioBonus(acv) ==
    IF acv >= 5000000 THEN 10
    ELSE IF acv >= 2000000 THEN 5
    ELSE 0

\* a variant that adds the two bonuses once per opportunity
OpportunityLocalsBonusPerOpp(opportunities) ==
    LET loop == ScoreOpportunities(opportunities, Len(opportunities))
    IN  [loop EXCEPT !.opp_score = loop.opp_score
             + Len(opportunities) * (MultiWinBonus(loop.closed_won_count)
                                       + PortfolioBonus(loop.total_acv))]

\* lines 414-453: the locals when the opportunity block ends (all 0 when the
\* list is empty and the block is skipped)
OpportunityLocals(opportunities) ==
    LET loop == ScoreOpportunities(opportunities, Len(opportunities))
    IN  IF opportunities = <<>> THEN loop
        ELSE [loop EXCEPT !.opp_score = loop.opp_score
                              + MultiWinBonus(loop.closed_won_count)
                              + PortfolioBonus(loop.total_acv)]

\* a variant without the cap
OpportunityPointsUncapped(raw_opp_score) == raw_opp_score

\* line 453: score += min(opp_score, 35)
OpportunityPoints(raw_opp_score) == Min(raw_opp_score, 35)

\* a variant that counts the skills of a bucket
SkillPointsPerSkill(skills) ==
    Min(25 * Len(skills.high_proficiency) + 12 * Len(skills.medium_proficiency)
            + 3 * Len(skills.basic_proficiency), 40)

\* lines 395-403: the flags of the three proficiency buckets, capped
SkillPoints(skills) ==
    LET skill_score == (IF skills.high_proficiency # <<>> THEN 25 ELSE 0)
                     + (IF skills.medium_proficiency # <<>> THEN 12 ELSE 0)
                     + (IF skills.basic_proficiency # <<>> THEN 3 ELSE 0)
    IN  Min(skill_score, 40)

\* lines 406-407
CertificationPoints(skills) ==
    IF skills.certifications # <<>> THEN Min(Len(skills.certifications) * 3, 15) ELSE 0

\* lines 410-411
SpecialtyPoints(skills) ==
    IF skills.specialties # <<>> THEN Min(Len(skills.specialties) * 2, 10) ELSE 0

\* lines 390-455: the returned score (every term is an integer, so round(score, 1)
\* changes nothing)
CalculateRelevanceScore(data) ==
    LET s1 == 0 + SkillPoints(data.skills)
        s2 == s1 + CertificationPoints(data.skills)
        s3 == s2 + SpecialtyPoints(data.skills)
    IN  IF data.opportunities # <<>>
        THEN s3 + OpportunityPoints(OpportunityLocals(data.opportunities).opp_score)
        ELSE s3

---------------------------------------------------------------------------
(* Specification of the scorer alone: an expert with some skill buckets is *)
(* given linked opportunities one by one and is then scored                *)

MaxOpps == 3

Txt_Closed_Won == <<"C","l","o","s","e","d"," ","W","o","n">>
Txt_closed_won_dash == <<"6"," ","-"," ","c","l","o","s","e","d"," ","w","o","n">>
Txt_Closed_Lost == <<"C","l","o","s","e","d"," ","L","o","s","t">>

\* the stage and amount of the opportunities a scored expert can be linked to
ScoreOppKinds ==
    {[stage |-> Str(Txt_Closed_Won), amount |-> Num(1000000)],
     [stage |-> Str(Txt_Closed_Won), amount |-> Num(2500000)],
     [stage |-> Str(Txt_Closed_Won), amount |-> NullV],
     [stage |-> Str(Txt_closed_won_dash), amount |-> Num(500000)],
     [stage |-> Str(Txt_closed_won_dash), amount |-> Num(999999)],
     [stage |-> Str(Txt_Closed_Lost), amount |-> Num(499999)],
     [stage |-> Str(Txt_Closed_Lost), amount |-> Num(100000)],
     [stage |-> Str(Txt_Closed_Lost), amount |-> Num(99999)],
     [stage |-> Str(Txt_Closed_Lost), amount |-> Num(0)],
     [stage |-> Str(<<>>), amount |-> Num(-250000)]}

\* n distinct skill names
SkillNames(n) == [i \in 1..n |-> Str(<<"s", LowerLetters[i]>>)]

Buckets(h, m, b, c, s) ==
    [high_proficiency |-> SkillNames(h), medium_proficiency |-> SkillNames(m),
     basic_proficiency |-> SkillNames(b), certifications |-> SkillNames(c),
     specialties |-> SkillNames(s)]

\* the skill buckets a scored expert can have
ScoreSkillKinds ==
    {Buckets(0, 0, 0, 0, 0), Buckets(1, 0, 0, 0, 0), Buckets(2, 0, 0, 0, 0),
     Buckets(0, 1, 0, 1, 0), Buckets(0, 0, 2, 0, 1), Buckets(1, 1, 0, 4, 4),
     Buckets(1, 2, 1, 5, 5), Buckets(3, 1, 2, 6, 6)}

ScoreStart ==
    /\ expert_data \in {[skills |-> k, opportunities |-> <<>>] : k \in ScoreSkillKinds}
    /\ opp_score = 0
    /\ total_acv = 0
    /\ closed_won_count = 0
    /\ relevance_score = 0
    /\ score_pc = "link"

ScoreIdle ==
    /\ expert_data = [skills |-> Buckets(0, 0, 0, 0, 0), opportunities |-> <<>>]
    /\ opp_score = 0
    /\ total_acv = 0
    /\ closed_won_count = 0
    /\ relevance_score = 0
    /\ score_pc = "off"

\* one more opportunity is appended to the expert's list (lines 841, 863)
AppendOpportunity ==
    /\ score_pc = "link"
    /\ Len(expert_data.opportunities) < MaxOpps
    /\ \E opp \in ScoreOppKinds :
           expert_data' = [expert_data EXCEPT !.opportunities = Append(@, opp)]
    /\ UNCHANGED <<opp_score, total_acv, closed_won_count, relevance_score, score_pc>>

\* calculate_relevance_score(expert_data), lines 390-455
ScoreExpert ==
    /\ score_pc = "link"
    /\ LET locals == OpportunityLocals(expert_data.opportunities)
       IN  /\ opp_score' = locals.opp_score
           /\ total_acv' = locals.total_acv
           /\ closed_won_count' = locals.closed_won_count
    /\ relevance_score' = CalculateRelevanceScore(expert_data)
    /\ score_pc' = "scored"
    /\ UNCHANGED expert_data

---------------------------------------------------------------------------
(* extract_relevant_skills (lines 252-388) *)

\* a variant in which manager-scored level 200 counts as medium
BucketColumnsManager200Medium ==
    [high_proficiency |->
         <<"SELF_ASSESMENT_SKILL_300", "SELF_ASSESMENT_SKILL_400",
           "MGR_SCORE_SKILL_300", "MGR_SCORE_SKILL_400">>,
     medium_proficiency |->
         <<"SELF_ASSESMENT_SKILL_100", "SELF_ASSESMENT_SKILL_200", "MGR_SCORE_SKILL_100",
           "MGR_SCORE_SKILL_200">>,
     basic_proficiency |->
         <<"SELF_ASSESMENT_SKILL_0", "SELF_ASSESMENT_SKILL_NULL",
           "MGR_SCORE_SKILL_0", "MGR_SCORE_SKILL_NULL">>,
     certifications |-> <<"CERT_INTERNAL", "CERT_EXTERNAL">>,
     specialties |-> <<"SPECIALTIES">>]

\* the columns read for each bucket, in the order of the loops
BucketColumns ==
    [high_proficiency |->
         <<"SELF_ASSESMENT_SKILL_300", "SELF_ASSESMENT_SKILL_400",
           "MGR_SCORE_SKILL_200", "MGR_SCORE_SKILL_300", "MGR_SCORE_SKILL_400">>,
     medium_proficiency |->
         <<"SELF_ASSESMENT_SKILL_100", "SELF_ASSESMENT_SKILL_200", "MGR_SCORE_SKILL_100">>,
     basic_proficiency |->
         <<"SELF_ASSESMENT_SKILL_0", "SELF_ASSESMENT_SKILL_NULL",
           "MGR_SCORE_SKILL_0", "MGR_SCORE_SKILL_NULL">>,
     certifications |-> <<"CERT_INTERNAL", "CERT_EXTERNAL">>,
     specialties |-> <<"SPECIALTIES">>]

BucketKeys == DOMAIN BucketColumns

Range(seq) == {seq[i] : i \in 1..Len(seq)}

ArrayColumns == UNION {Range(BucketColumns[k]) : k \in BucketKeys}

\* line 262: search_terms_upper
SearchTermsUpper(search_terms) == [i \in 1..Len(search_terms) |-> Upper(search_terms[i])]

\* a variant that compares the skill as it is written
SkillMatchesCaseSensitive(skill, search_terms_upper) ==
    /\ skill.val # <<>>
    /\ \E i \in 1..Len(search_terms_upper) : Contains(skill.val, search_terms_upper[i])

\* line 286: skill and any(term in str(skill).upper() for term in search_terms_upper)
SkillMatches(skill, search_terms_upper) ==
    /\ skill.val # <<>>
    /\ \E i \in 1..Len(search_terms_upper) :
           Contains(Upper(skill.val), search_terms_upper[i])

\* lines 285-287: the matching elements of one column, in order
RECURSIVE MatchingSkills(_, _, _)
MatchingSkills(skill_matches_, search_terms_upper, n) ==
    IF n = 0 THEN <<>>
    ELSE MatchingSkills(skill_matches_, search_terms_upper, n - 1)
             \o (IF SkillMatches(skill_matches_[n], search_terms_upper)
                 THEN <<skill_matches_[n]>> ELSE <<>>)

\* lines 265-287 (and the four loops after it): what the first n columns of a
\* bucket append to the bucket's list
RECURSIVE AppendedFrom(_, _, _, _)
AppendedFrom(columns, row, search_terms_upper, n) ==
    IF n = 0 THEN <<>>
    ELSE AppendedFrom(columns, row, search_terms_upper, n - 1)
             \o LET parsed == ParseArrayField(row[columns[n]])
                IN  MatchingSkills(parsed, search_terms_upper, Len(parsed))

\* line 386: list(set(...)): the distinct elements in an order the code does
\* not control
ListOfSet(list) ==
    LET S == Range(list)
    IN  {f \in [1..Cardinality(S) -> S] : \A i, j \in DOMAIN f : f[i] = f[j] => i = j}

\* lines 252-388: the records extract_relevant_skills can return
ExtractRelevantSkills(row, search_terms) ==
    LET up == SearchTermsUpper(search_terms)
        appended == [k \in BucketKeys |->
                        AppendedFrom(BucketColumns[k], row, up, Len(BucketColumns[k]))]
    IN  {[high_proficiency |-> h, medium_proficiency |-> m, basic_proficiency |-> b,
          certifications |-> c, specialties |-> s] :
             h \in ListOfSet(appended.high_proficiency),
             m \in ListOfSet(appended.medium_proficiency),
             b \in ListOfSet(appended.basic_proficiency),
             c \in ListOfSet(appended.certifications),
             s \in ListOfSet(appended.specialties)}

---------------------------------------------------------------------------
(* Specification of the extractor alone: one record, one list of terms *)

MaxFilledColumns == 2

Txt_AWS_list == <<"[", "\"", "A", "W", "S", " ", "C", "e", "r", "t", "i", "f", "i", "e",
                  "d", "\"", ",", "\"", "a", "w", "s", "\"", "]">>
Txt_Spark_list == <<"[", "'", "S", "p", "a", "r", "k", "'", ",", "'", "a", "w", "s", "'",
                    ",", "'", "'", ",", "'", "a", "w", "s", "'", "]">>
Txt_bare_aws == <<" ", "a", "w", "s">>
Txt_aws == <<"a", "w", "s">>
Txt_AWS_Certified == <<"A", "W", "S", " ", "C", "e", "r", "t", "i", "f", "i", "e", "d">>
Txt_Spark == <<"S", "p", "a", "r", "k">>

ExtractFieldValues == {Str(Txt_AWS_list), Str(Txt_Spark_list), Str(Txt_bare_aws)}

ExtractTermLists ==
    {<<>>, <<Txt_aws>>, <<<<"s", "P", "a", "r", "k">>, <<"C", "e", "r", "t">>>>, <<<<>>>>}

NoArrays == [c \in ArrayColumns |-> NullV]

FilledColumns(row) == {c \in ArrayColumns : row[c] # NullV}

\* the records with at most n array columns filled
RECURSIVE RowsWithUpTo(_)
RowsWithUpTo(n) ==
    IF n = 0 THEN {NoArrays}
    ELSE LET fewer == RowsWithUpTo(n - 1)
         IN  fewer \cup
             {[r EXCEPT ![c] = v] :
                  r \in {q \in fewer : Cardinality(FilledColumns(q)) = n - 1},
                  c \in ArrayColumns, v \in ExtractFieldValues}

ExtractStart ==
    /\ extract_row \in RowsWithUpTo(MaxFilledColumns)
    /\ extract_terms \in ExtractTermLists
    /\ skills_found = [k \in BucketKeys |-> <<>>]
    /\ extract_pc = "call"

ExtractIdle ==
    /\ extract_row = NoArrays
    /\ extract_terms = <<>>
    /\ skills_found = [k \in BucketKeys |-> <<>>]
    /\ extract_pc = "off"

\* extract_relevant_skills(row, search_terms), lines 252-388
ExtractSkills ==
    /\ extract_pc = "call"
    /\ skills_found' \in ExtractRelevantSkills(extract_row, extract_terms)
    /\ extract_pc' = "returned"
    /\ UNCHANGED <<extract_row, extract_terms>>

---------------------------------------------------------------------------
(* The two data sources and the queries (lines 77-250) *)

\* a table value of ARRAY type
Arr(elems) == [kind |-> "array", val |-> elems]

RECURSIVE JoinStrings(_, _, _, _)
\* the first n elements, each between quote marks, joined by sep
JoinStrings(elems, quote, sep, n) ==
    IF n = 0 THEN <<>>
    ELSE (IF n = 1 THEN <<>> ELSE JoinStrings(elems, quote, sep, n - 1) \o sep)
             \o quote \o elems[n].val \o quote

\* line 145, to_pandas(): an ARRAY arrives as its JSON text, NULL as None
ToPandasValue(v) ==
    IF v.kind = "array"
    THEN Str(<<"[">> \o JoinStrings(v.val, <<"\"">>, <<",">>, Len(v.val)) \o <<"]">>)
    ELSE v

ToPandasRow(row) == [c \in DOMAIN row |-> ToPandasValue(row[c])]

\* lines 93-111: EXISTS(SELECT 1 FROM TABLE(FLATTEN(col)) f
\*               WHERE UPPER(f.VALUE::STRING) LIKE '%TERM%') for one column
FlattenExistsLike(v, term) ==
    /\ v.kind = "array"
    /\ \E i \in 1..Len(v.val) : Contains(Upper(v.val[i].val), Upper(term))

\* a variant that searches the twelve skill arrays only
PreciseWhereSkillLevelsOnly(row, search_terms) ==
    \E i \in 1..Len(search_terms) :
        \E c \in ArrayColumns \ {"SPECIALTIES", "CERT_INTERNAL", "CERT_EXTERNAL"} :
            FlattenExistsLike(row[c], search_terms[i])

\* lines 86-115: the WHERE clause of the precise query (terms without % or _)
PreciseWhere(row, search_terms) ==
    \E i \in 1..Len(search_terms) :
        \E c \in ArrayColumns : FlattenExistsLike(row[c], search_terms[i])

FallbackColumns == {"SELF_ASSESMENT_SKILL_300", "SELF_ASSESMENT_SKILL_400",
                    "MGR_SCORE_SKILL_300", "MGR_SCORE_SKILL_400",
                    "SPECIALTIES", "CERT_EXTERNAL"}

\* lines 160-172: UPPER(ARRAY_TO_STRING(col, ',')) LIKE '%TERM%' over six columns
FallbackWhere(row, search_terms) ==
    \E i \in 1..Len(search_terms) :
        \E c \in FallbackColumns :
            /\ row[c].kind = "array"
            /\ Contains(Upper(JoinStrings(row[c].val, <<>>, <<",">>, Len(row[c].val))),
                        Upper(search_terms[i]))

\* the orders in which a result set can be returned
Orderings(rows) == {f \in [1..Cardinality(rows) -> rows] : Range(f) = rows}

\* the rank of a character in the collation of ORDER BY NAME
CharRank(c) ==
    IF \E i \in 1..26 : UpperLetters[i] = c
    THEN CHOOSE i \in 1..26 : UpperLetters[i] = c
    ELSE IF \E i \in 1..26 : LowerLetters[i] = c
    THEN 26 + (CHOOSE i \in 1..26 : LowerLetters[i] = c)
    ELSE 0

RECURSIVE TextNotAfter(_, _)
TextNotAfter(a, b) ==
    IF a = <<>> THEN TRUE
    ELSE IF b = <<>> THEN FALSE
    ELSE IF CharRank(Head(a)) # CharRank(Head(b)) THEN CharRank(Head(a)) < CharRank(Head(b))
    ELSE TextNotAfter(Tail(a), Tail(b))

\* lines 141, 198: ORDER BY NAME, ascending, NULL names last
NameNotAfter(r1, r2) ==
    IF IsNull(r2.NAME) THEN TRUE
    ELSE IF IsNull(r1.NAME) THEN FALSE
    ELSE TextNotAfter(r1.NAME.val, r2.NAME.val)

OrderedByName(rows) ==
    {f \in Orderings(rows) : \A i, j \in DOMAIN f : i < j => NameNotAfter(f[i], f[j])}

\* line 199: LIMIT 1000
FallbackLimit == 1000

RECURSIVE EscapeQuotes(_)
\* lines 87, 161: replace("'", "''")
EscapeQuotes(s) ==
    IF s = <<>> THEN <<>>
    ELSE (IF Head(s) = "'" THEN <<"'", "'">> ELSE <<Head(s)>>) \o EscapeQuotes(Tail(s))

\* lines 87, 161: the text put between '% and %' for each term, with the
\* name of the query it is put into
EscapedTerms(name, search_terms) ==
    [query |-> name,
     literals |-> [i \in 1..Len(search_terms) |-> EscapeQuotes(Upper(search_terms[i]))]]

\* lines 151-208: _search_freestyle_simple; errors are the queries that raise
SearchFreestyleSimple(table, search_terms, errors) ==
    IF search_terms = <<>>
    THEN {[df |-> <<>>, notices |-> <<>>, queries |-> <<>>]}
    ELSE IF "fallback" \in errors
    THEN {[df |-> <<>>, notices |-> <<"error: Both search methods failed">>,
           queries |-> <<EscapedTerms("fallback", search_terms)>>]}
    ELSE {[df |-> [i \in 1..Min(Len(f), FallbackLimit) |-> ToPandasRow(f[i])],
           notices |-> <<"info: Using simplified search">>,
           queries |-> <<EscapedTerms("fallback", search_terms)>>] :
              f \in OrderedByName({r \in table : FallbackWhere(r, search_terms)})}

\* a variant that gives up when the precise query fails
SearchFreestyleExpertsWithoutFallback(table, search_terms, errors) ==
    IF "precise" \in errors
    THEN {[df |-> <<>>, notices |-> <<"error: Both search methods failed">>,
           queries |-> <<EscapedTerms("precise", search_terms)>>]}
    ELSE {[df |-> [i \in 1..Len(f) |-> ToPandasRow(f[i])],
           notices |-> <<>>, queries |-> <<EscapedTerms("precise", search_terms)>>] :
              f \in OrderedByName({r \in table : PreciseWhere(r, search_terms)})}

\* lines 77-149: search_freestyle_experts
SearchFreestyleExperts(table, search_terms, errors) ==
    IF search_terms = <<>>
    THEN {[df |-> <<>>, notices |-> <<>>, queries |-> <<>>]}
    ELSE IF "precise" \in errors
    THEN {[r EXCEPT !.queries = <<EscapedTerms("precise", search_terms)>> \o @] :
              r \in SearchFreestyleSimple(table, search_terms, errors)}
    ELSE {[df |-> [i \in 1..Len(f) |-> ToPandasRow(f[i])],
           notices |-> <<>>, queries |-> <<EscapedTerms("precise", search_terms)>>] :
              f \in OrderedByName({r \in table : PreciseWhere(r, search_terms)})}

\* the day datetime.now() falls on (line 878), as a day number
Today == 2000

\* line 240: DATEADD(year, -3, CURRENT_DATE()), in days
ThreeYears == 1095

\* lines 217-221, 239-241: the WHERE clause of the opportunity query
OpportunityWhere(o, search_terms) ==
    /\ \E i \in 1..Len(search_terms) :
           /\ IsStr(o.PRIMARY_COMPETITOR_C)
           /\ Contains(Upper(o.PRIMARY_COMPETITOR_C.val), Upper(search_terms[i]))
    /\ o.CLOSE_DATE.kind = "date"
    /\ o.CLOSE_DATE.val[1] >= Today - ThreeYears
    /\ (~IsNull(o.LEAD_SALES_ENGINEER_C) \/ ~IsNull(o.OWNER_ID))

\* line 242: ORDER BY o.CLOSE_DATE DESC
CloseDateNotAfter(r1, r2) == r1.CLOSE_DATE.val[1] >= r2.CLOSE_DATE.val[1]

OrderedByCloseDate(rows) ==
    {f \in Orderings(rows) : \A i, j \in DOMAIN f : i < j => CloseDateNotAfter(f[i], f[j])}

\* lines 235-236: COUNT(*) OVER (PARTITION BY ...) over the selected rows
WithPartitionCounts(o, selected) ==
    [c \in DOMAIN o \cup {"SE_OPPORTUNITY_COUNT", "OWNER_OPPORTUNITY_COUNT"} |->
        IF c = "SE_OPPORTUNITY_COUNT"
        THEN Cardinality({p \in selected :
                              p.LEAD_SALES_ENGINEER_C = o.LEAD_SALES_ENGINEER_C})
        ELSE IF c = "OWNER_OPPORTUNITY_COUNT"
        THEN Cardinality({p \in selected : p.OWNER_ID = o.OWNER_ID})
        ELSE o[c]]

\* a variant that reports nothing when the opportunity query fails
SearchSalesforceExpertsSilently(table, search_terms, errors) ==
    IF search_terms = <<>>
    THEN {[df |-> <<>>, notices |-> <<>>, queries |-> <<>>]}
    ELSE IF \/ "opportunity" \in errors
            \/ \E i \in 1..Len(search_terms) : HasChar(search_terms[i], "'")
    THEN {[df |-> <<>>, notices |-> <<>>,
           queries |-> <<[query |-> "opportunity", literals |-> search_terms]>>]}
    ELSE LET selected == {o \in table : OpportunityWhere(o, search_terms)}
         IN  {[df |-> [i \in 1..Len(f) |-> WithPartitionCounts(f[i], selected)],
               notices |-> <<>>,
               queries |-> <<[query |-> "opportunity", literals |-> search_terms]>>] :
                  f \in OrderedByCloseDate(selected)}

\* lines 210-250: search_salesforce_experts; the terms are put between '% and
\* %' as they are (line 219), and a term with a quote character ends the string
\* literal it is put into, so that the query raises
SearchSalesforceExperts(table, search_terms, errors) ==
    IF search_terms = <<>>
    THEN {[df |-> <<>>, notices |-> <<>>, queries |-> <<>>]}
    ELSE IF \/ "opportunity" \in errors
            \/ \E i \in 1..Len(search_terms) : HasChar(search_terms[i], "'")
    THEN {[df |-> <<>>, notices |-> <<"error: Error querying Salesforce data">>,
           queries |-> <<[query |-> "opportunity", literals |-> search_terms]>>]}
    ELSE LET selected == {o \in table : OpportunityWhere(o, search_terms)}
         IN  {[df |-> [i \in 1..Len(f) |-> WithPartitionCounts(f[i], selected)],
               notices |-> <<>>,
               queries |-> <<[query |-> "opportunity", literals |-> search_terms]>>] :
                  f \in OrderedByCloseDate(selected)}

\* a variant that runs the query whether or not its result is stored
CachedListQueryAlways(name, cached, errors) ==
    [notices |-> IF name \notin errors THEN <<>>
                 ELSE IF name = "roster"
                 THEN <<"error: Error querying Sales Engineer data">>
                 ELSE <<"error: Error fetching industries">>,
     queries |-> <<[query |-> name, literals |-> <<>>]>>]

\* lines 457-485, 573-597: get_all_sales_engineers ("roster") and
\* get_top_industries ("industries"), cached without arguments: the query is
\* run unless a result is stored, and a failure shows an error message
CachedListQuery(name, cached, errors) ==
    IF name \in cached THEN [notices |-> <<>>, queries |-> <<>>]
    ELSE [notices |-> IF name \notin errors THEN <<>>
                      ELSE IF name = "roster"
                      THEN <<"error: Error querying Sales Engineer data">>
                      ELSE <<"error: Error fetching industries">>,
          queries |-> <<[query |-> name, literals |-> <<>>]>>]

---------------------------------------------------------------------------
(* The search of main() (lines 764-914) *)

RECURSIVE SplitOn(_, _)
\* str.split(sep) for a one-character sep
SplitOn(s, sep) ==
    LET at == FindFrom(s, sep, 1)
    IN  IF at = 0 THEN <<s>>
        ELSE <<SubSeq(s, 1, at - 1)>> \o SplitOn(SubSeq(s, at + 1, Len(s)), sep)

\* a variant that leaves the empty pieces out
SearchTermsWithoutEmpty(input) ==
    LET pieces == SplitOn(input, ",")
        NotEmpty(t) == t # <<>>
    IN  SelectSeq([i \in 1..Len(pieces) |-> Strip(pieces[i])], NotEmpty)

\* line 765: [term.strip() for term in search_input.split(',')]
SearchTerms(input) ==
    LET pieces == SplitOn(input, ",") IN [i \in 1..Len(pieces) |-> Strip(pieces[i])]

\* bool(value) of a column value
Truthy(v) == ~IsNull(v) /\ v.val # <<>>

\* a variant in which the level "Basic (0-100)" asks for a matched skill
IncludeExpertBasicNeedsSkill(row, skills, f) ==
    /\ ~(f.min_skill_level = "High (300-400)" /\ skills.high_proficiency = <<>>)
    /\ ~(/\ f.min_skill_level = "Medium (200)"
         /\ skills.medium_proficiency = <<>> /\ skills.high_proficiency = <<>>)
    /\ ~(/\ f.min_skill_level = "Basic (0-100)"
         /\ skills.basic_proficiency = <<>> /\ skills.medium_proficiency = <<>>
         /\ skills.high_proficiency = <<>>)
    /\ ~(f.require_certifications /\ skills.certifications = <<>>)
    /\ f.require_manager_endorsement =>
           \E c \in {"MGR_SCORE_SKILL_100", "MGR_SCORE_SKILL_200",
                     "MGR_SCORE_SKILL_300", "MGR_SCORE_SKILL_400"} : Truthy(row[c])

\* lines 781-798: the skill-level, certification and manager-endorsement filters
IncludeExpert(row, skills, f) ==
    /\ ~(f.min_skill_level = "High (300-400)" /\ skills.high_proficiency = <<>>)
    /\ ~(/\ f.min_skill_level = "Medium (200)"
         /\ skills.medium_proficiency = <<>> /\ skills.high_proficiency = <<>>)
    /\ ~(f.require_certifications /\ skills.certifications = <<>>)
    /\ f.require_manager_endorsement =>
           \E c \in {"MGR_SCORE_SKILL_100", "MGR_SCORE_SKILL_200",
                     "MGR_SCORE_SKILL_300", "MGR_SCORE_SKILL_400"} : Truthy(row[c])

\* lines 803-813: the entry of a new expert
NewExpert(row, skills) ==
    [name |-> row.NAME, email |-> row.EMAIL, user_id |-> row.USER_ID,
     skills |-> skills, employers |-> row.EMPLOYERS, industries |-> {},
     opportunities |-> <<>>, opportunity_count |-> 0, last_activity |-> NullV]

\* d[key] = value on a dict kept as the sequence of its items
DictSet(d, key, value) ==
    IF \E i \in 1..Len(d) : d[i].key = key
    THEN [i \in 1..Len(d) |-> IF d[i].key = key THEN [key |-> key, value |-> value]
                                                  ELSE d[i]]
    ELSE Append(d, [key |-> key, value |-> value])

\* a variant that also enters the rows without employee identifier
RECURSIVE ProcessFreestyleWithNullIds(_, _, _, _)
ProcessFreestyleWithNullIds(df, per_row, f, n) ==
    IF n = 0 THEN <<>>
    ELSE LET before == ProcessFreestyleWithNullIds(df, per_row, f, n - 1)
         IN  IF IncludeExpert(df[n], per_row[n], f)
             THEN DictSet(before, df[n].EMPLOYEE_ID, NewExpert(df[n], per_row[n]))
             ELSE before

\* lines 773-813: experts_data after the first n rows of freestyle_df, the
\* skills of row i being per_row[i]
RECURSIVE ProcessFreestyle(_, _, _, _)
ProcessFreestyle(df, per_row, f, n) ==
    IF n = 0 THEN <<>>
    ELSE LET before == ProcessFreestyle(df, per_row, f, n - 1)
         IN  IF ~IsNull(df[n].EMPLOYEE_ID) /\ IncludeExpert(df[n], per_row[n], f)
             THEN DictSet(before, df[n].EMPLOYEE_ID, NewExpert(df[n], per_row[n]))
             ELSE before

\* line 778 for every row: the sequences of extraction results the rows can give
RECURSIVE AllExtractions(_, _, _)
AllExtractions(df, search_terms, n) ==
    IF n = 0 THEN {<<>>}
    ELSE {Append(s, k) : s \in AllExtractions(df, search_terms, n - 1),
                         k \in IF IsNull(df[n].EMPLOYEE_ID)
                               THEN {[b \in BucketKeys |-> <<>>]}
                               ELSE ExtractRelevantSkills(df[n], search_terms)}

\* lines 832-840, 854-862
OppInfo(row, role) ==
    [name |-> row.OPPORTUNITY_NAME, competitor |-> row.PRIMARY_COMPETITOR_C,
     close_date |-> row.CLOSE_DATE, stage |-> row.STAGE_NAME, amount |-> row.AMOUNT,
     industry |-> row.ACCOUNT_INDUSTRY, role |-> role]

\* a variant that counts the entries instead of taking the row's count
LinkRoleCountingEntries(map, id, row, role, count) ==
    LET old == IF id \in DOMAIN map THEN map[id]
               ELSE [opportunities |-> <<>>, count |-> 0, industries |-> {}]
        new == [opportunities |-> Append(old.opportunities, OppInfo(row, role)),
                count |-> Len(old.opportunities) + 1,
                industries |-> old.industries \cup
                                   (IF Truthy(row.ACCOUNT_INDUSTRY)
                                    THEN {row.ACCOUNT_INDUSTRY} ELSE {})]
    IN  [k \in DOMAIN map \cup {id} |-> IF k = id THEN new ELSE map[k]]

\* lines 825-842, 847-864: one role of one row entered into sf_expert_map
LinkRole(map, id, row, role, count) ==
    LET old == IF id \in DOMAIN map THEN map[id]
               ELSE [opportunities |-> <<>>, count |-> 0, industries |-> {}]
        new == [opportunities |-> Append(old.opportunities, OppInfo(row, role)),
                count |-> count,
                industries |-> old.industries \cup
                                   (IF Truthy(row.ACCOUNT_INDUSTRY)
                                    THEN {row.ACCOUNT_INDUSTRY} ELSE {})]
    IN  [k \in DOMAIN map \cup {id} |-> IF k = id THEN new ELSE map[k]]

\* a variant that looks at the owner only when the row has no lead engineer
LinkRowOwnerOnlyWithoutLead(map, row) ==
    IF ~IsNull(row.LEAD_SALES_ENGINEER_C)
    THEN LinkRole(map, row.LEAD_SALES_ENGINEER_C, row, "Lead Sales Engineer",
                  row.SE_OPPORTUNITY_COUNT)
    ELSE IF ~IsNull(row.OWNER_ID)
    THEN LinkRole(map, row.OWNER_ID, row, "Opportunity Owner", row.OWNER_OPPORTUNITY_COUNT)
    ELSE map

\* lines 818-864: the loop body, the lead engineer first, then the owner
LinkRow(map, row) ==
    LET led == IF ~IsNull(row.LEAD_SALES_ENGINEER_C)
               THEN LinkRole(map, row.LEAD_SALES_ENGINEER_C, row, "Lead Sales Engineer",
                             row.SE_OPPORTUNITY_COUNT)
               ELSE map
    IN  IF ~IsNull(row.OWNER_ID)
        THEN LinkRole(led, row.OWNER_ID, row, "Opportunity Owner",
                      row.OWNER_OPPORTUNITY_COUNT)
        ELSE led

\* a variant that goes through the rows from the last to the first
RECURSIVE ProcessSalesforceReversed(_, _)
ProcessSalesforceReversed(df, n) ==
    IF n = 0 THEN <<>>
    ELSE LinkRow(ProcessSalesforceReversed(df, n - 1), df[Len(df) - n + 1])

\* lines 816-864: sf_expert_map after the first n rows of salesforce_df
RECURSIVE ProcessSalesforce(_, _)
ProcessSalesforce(df, n) ==
    IF n = 0 THEN <<>> ELSE LinkRow(ProcessSalesforce(df, n - 1), df[n])

\* line 874: max(opp['close_date'] for opp in opportunities)
LatestCloseDate(opportunities) ==
    CHOOSE d \in {opportunities[i].close_date : i \in 1..Len(opportunities)} :
        \A i \in 1..Len(opportunities) : opportunities[i].close_date.val[1] <= d.val[1]

\* a variant that looks the expert up by its employee identifier
MatchSalesforceByEmployeeId(experts, map) ==
    [i \in 1..Len(experts) |->
        IF experts[i].key \in DOMAIN map
        THEN [experts[i] EXCEPT !.value.opportunities = map[experts[i].key].opportunities,
                                !.value.opportunity_count = map[experts[i].key].count,
                                !.value.industries = map[experts[i].key].industries]
        ELSE experts[i]]

\* lines 867-874: the opportunity data of every expert whose user_id is a key
MatchSalesforce(experts, map) ==
    [i \in 1..Len(experts) |->
        LET data == experts[i].value
        IN  IF data.user_id \in DOMAIN map
            THEN [experts[i] EXCEPT !.value =
                     [data EXCEPT
                         !.opportunities = map[data.user_id].opportunities,
                         !.opportunity_count = map[data.user_id].count,
                         !.industries = map[data.user_id].industries,
                         !.last_activity =
                             IF map[data.user_id].opportunities # <<>>
                             THEN LatestCloseDate(map[data.user_id].opportunities)
                             ELSE data.last_activity]]
            ELSE experts[i]]

\* lines 878-884: the cutoff date of a recency setting
CutoffDate(date_range) ==
    Today - (CASE date_range = "Last 6 months" -> 180
               [] date_range = "Last year" -> 365
               [] date_range = "Last 2 years" -> 730
               [] OTHER -> 0)

\* a variant that drops the experts without a last activity
ApplyDateRangeActiveOnly(experts, date_range) ==
    IF date_range = "All time" THEN experts
    ELSE LET Keep(e) == /\ ~IsNull(e.value.last_activity)
                        /\ e.value.last_activity.val[1] >= CutoffDate(date_range)
         IN  SelectSeq(experts, Keep)

\* lines 876-892: the date range filter
ApplyDateRange(experts, date_range) ==
    IF date_range = "All time" THEN experts
    ELSE LET Keep(e) == \/ /\ ~IsNull(e.value.last_activity)
                           /\ e.value.last_activity.val[1] >= CutoffDate(date_range)
                        \/ IsNull(e.value.last_activity)
         IN  SelectSeq(experts, Keep)

\* a variant that keeps the experts without industry data
ApplyIndustryFilterKeepingUnknown(experts, industry_filter) ==
    IF industry_filter = {} THEN experts
    ELSE LET Keep(e) == \/ e.value.industries = {}
                        \/ e.value.industries \cap industry_filter # {}
         IN  SelectSeq(experts, Keep)

\* lines 894-904: the industry filter
ApplyIndustryFilter(experts, industry_filter) ==
    IF industry_filter = {} THEN experts
    ELSE LET Keep(e) == /\ e.value.industries # {}
                        /\ e.value.industries \cap industry_filter # {}
         IN  SelectSeq(experts, Keep)

\* line 425, opp.get('stage', '').upper(): the stage of an opportunity is in
\* the dict with the value None, and None has no method upper
ScoreRaises(experts) ==
    \E i \in 1..Len(experts) : \E k \in 1..Len(experts[i].value.opportunities) :
        IsNull(experts[i].value.opportunities[k].stage)

\* lines 907-908: every remaining expert gets its score
ScoreExperts(experts) ==
    [i \in 1..Len(experts) |->
        [key |-> experts[i].key,
         value |-> [c \in DOMAIN experts[i].value \cup {"relevance_score"} |->
                       IF c = "relevance_score"
                       THEN CalculateRelevanceScore(experts[i].value)
                       ELSE experts[i].value[c]]]]

\* a variant that puts an item ahead of the earlier items of equal score
RECURSIVE SortedByScoreUnstable(_, _)
SortedByScoreUnstable(experts, n) ==
    IF n = 0 THEN <<>>
    ELSE LET before == SortedByScoreUnstable(experts, n - 1)
             item == experts[n]
             ahead == Cardinality({i \in 1..Len(before) :
                          before[i].value.relevance_score > item.value.relevance_score})
         IN  SubSeq(before, 1, ahead) \o <<item>> \o SubSeq(before, ahead + 1, Len(before))

\* lines 910-914: sorted(..., reverse=True) on the first n items: descending
\* by score, items of equal score in their order of arrival
RECURSIVE SortedByScore(_, _)
SortedByScore(experts, n) ==
    IF n = 0 THEN <<>>
    ELSE LET before == SortedByScore(experts, n - 1)
             item == experts[n]
             ahead == Cardinality({i \in 1..Len(before) :
                          before[i].value.relevance_score >= item.value.relevance_score})
         IN  SubSeq(before, 1, ahead) \o <<item>> \o SubSeq(before, ahead + 1, Len(before))

\* lines 773-914 for given query results and extraction results: the locals
\* experts_data (after line 874), experts_data (after line 892), sorted_experts
SearchPipeline(fs_df, per_row, sf_df, f) ==
    LET matched == MatchSalesforce(ProcessFreestyle(fs_df, per_row, f, Len(fs_df)),
                                   ProcessSalesforce(sf_df, Len(sf_df)))
        dated == ApplyDateRange(matched, f.date_range)
        remaining == ApplyIndustryFilter(dated, f.industry_filter)
        scored == ScoreExperts(remaining)
    IN  [linked |-> matched, dated |-> dated, raises |-> ScoreRaises(remaining),
         sorted |-> SortedByScore(scored, Len(scored))]


---------------------------------------------------------------------------
(* Specification of the search: two tables, one search input, one setting *)
(* of the filter widgets, one run of the search                            *)

MaxSkillRows == 2
MaxOppRows == 2
MaxActiveFilters == 1

Txt_Databricks == <<"D", "a", "t", "a", "b", "r", "i", "c", "k", "s">>
Txt_Databricks_SQL == <<"D", "a", "t", "a", "b", "r", "i", "c", "k", "s", " ", "S", "Q", "L">>
Txt_Databricks_Certified == <<"D", "a", "t", "a", "b", "r", "i", "c", "k", "s", " ", "C", "e", "r", "t", "i", "f", "i", "e", "d">>
Txt_spark_DATABRICKS == <<"s", "p", "a", "r", "k", ",", " ", "D", "A", "T", "A", "B", "R", "I", "C", "K", "S">>

Technology == Str(<<"T", "e", "c", "h", "n", "o", "l", "o", "g", "y">>)
Retail == Str(<<"R", "e", "t", "a", "i", "l">>)

\* a row of FREESTYLE_SUMMARY whose columns are all NULL
NullSkillsRow ==
    [c \in ArrayColumns \cup {"EMPLOYEE_ID", "USER_ID", "NAME", "EMAIL", "EMPLOYERS"} |->
        NullV]

\* the rows the skills table is filled from: Ann; a second row with Ann's
\* employee identifier; Bob; a row without employee identifier and without name
SkillsRows ==
    {[NullSkillsRow EXCEPT !.EMPLOYEE_ID = Str(<<"E", "1">>), !.USER_ID = Str(<<"U", "1">>),
                           !.NAME = Str(<<"A", "n", "n">>),
                           !.SELF_ASSESMENT_SKILL_400 = Arr(<<Str(Txt_Databricks)>>),
                           !.CERT_EXTERNAL = Arr(<<>>)],
     [NullSkillsRow EXCEPT !.EMPLOYEE_ID = Str(<<"E", "1">>), !.USER_ID = Str(<<"U", "1">>),
                           !.NAME = Str(<<"A", "n", "n", "e">>),
                           !.SELF_ASSESMENT_SKILL_0 = Arr(<<Str(Txt_Databricks)>>)],
     [NullSkillsRow EXCEPT !.EMPLOYEE_ID = Str(<<"E", "2">>), !.USER_ID = Str(<<"U", "2">>),
                           !.NAME = Str(<<"B", "o", "b">>),
                           !.MGR_SCORE_SKILL_100 = Arr(<<Str(Txt_Databricks_SQL)>>),
                           !.CERT_INTERNAL = Arr(<<Str(Txt_Databricks_Certified)>>),
                           !.SPECIALTIES = Arr(<<Str(Txt_Spark), Str(Txt_Databricks)>>)],
     [NullSkillsRow EXCEPT !.USER_ID = Str(<<"U", "3">>),
                           !.SELF_ASSESMENT_SKILL_300 = Arr(<<Str(Txt_Databricks)>>)]}

Opportunity(id, lead, owner, competitor, stage, amount, age, industry) ==
    [ID |-> id, OPPORTUNITY_NAME |-> id, PRIMARY_COMPETITOR_C |-> competitor,
     CLOSE_DATE |-> Date(Today - age), STAGE_NAME |-> Str(stage), AMOUNT |-> amount,
     LEAD_SALES_ENGINEER_C |-> lead, OWNER_ID |-> owner, ACCOUNT_ID |-> industry,
     ACCOUNT_INDUSTRY |-> industry]

\* the rows the opportunity table is filled from: one owned by Ann's user; one
\* led and owned by Ann's user; one led by Ann's user and owned by Bob's; one
\* with another competitor, closed a day more than two years ago; one closed a
\* day more than three years ago
OpportunityRows ==
    {Opportunity(Str(<<"O", "1">>), NullV, Str(<<"U", "1">>), Str(Txt_Databricks),
                 Txt_Closed_Won, Num(1200000), 100, Technology),
     Opportunity(Str(<<"O", "2">>), Str(<<"U", "1">>), Str(<<"U", "1">>), Str(Txt_Databricks),
                 Txt_Closed_Won, Num(1200000), 180, Technology),
     Opportunity(Str(<<"O", "3">>), Str(<<"U", "1">>), Str(<<"U", "2">>),
                 Str(Txt_Databricks_SQL), Txt_Closed_Lost, Num(500000), 365, Retail),
     Opportunity(Str(<<"O", "4">>), NullV, Str(<<"U", "2">>), Str(Txt_Spark),
                 Txt_closed_won_dash, NullV, 731, NullV),
     Opportunity(Str(<<"O", "5">>), Str(<<"U", "3">>), Str(<<"U", "1">>), Str(Txt_Databricks),
                 Txt_Closed_Won, Num(2500000), ThreeYears + 1, Retail)}

SearchInputs == {<<>>, Txt_Databricks, Txt_spark_DATABRICKS, Txt_Spark}

\* lines 724-757: the options of the filter widgets
SkillLevels == {"Any", "Basic (0-100)", "Medium (200)", "High (300-400)"}
DateRanges == {"All time", "Last 6 months", "Last year", "Last 2 years"}

\* the widgets as they are before the user touches them
NoFilters ==
    [min_skill_level |-> "Any", require_certifications |-> FALSE,
     require_manager_endorsement |-> FALSE, date_range |-> "All time",
     industry_filter |-> {}]

ActiveFilters(f) == {k \in DOMAIN f : f[k] # NoFilters[k]}

FilterSettings ==
    {f \in [min_skill_level : SkillLevels, require_certifications : BOOLEAN,
            require_manager_endorsement : BOOLEAN, date_range : DateRanges,
            industry_filter : SUBSET {Technology, Retail}] :
         Cardinality(ActiveFilters(f)) <= MaxActiveFilters}

SubsetsUpTo(S, n) == {T \in SUBSET S : Cardinality(T) <= n}

MainStart ==
    /\ skills_table \in SubsetsUpTo(SkillsRows, MaxSkillRows)
    /\ opportunity_table \in SubsetsUpTo(OpportunityRows, MaxOppRows)
    /\ sql_errors = {}
    /\ cached_lists = {"industries", "roster"}
    /\ search_input \in SearchInputs
    /\ filters \in FilterSettings
    /\ freestyle_df = <<>> /\ salesforce_df = <<>> /\ row_skills = <<>>
    /\ experts_data = <<>> /\ date_filtered = <<>> /\ sorted_experts = <<>>
    /\ notices = <<>> /\ queries = <<>>
    /\ main_pc = "rerun"

MainIdle ==
    /\ skills_table = {} /\ opportunity_table = {} /\ sql_errors = {}
    /\ cached_lists = {}
    /\ search_input = <<>> /\ filters = NoFilters
    /\ freestyle_df = <<>> /\ salesforce_df = <<>> /\ row_skills = <<>>
    /\ experts_data = <<>> /\ date_filtered = <<>> /\ sorted_experts = <<>>
    /\ notices = <<>> /\ queries = <<>>
    /\ main_pc = "off"

\* one run of main() with a search input: the industry list for the filter
\* widget (line 752), the two searches, the aggregation, the filters, the
\* scores and the sort (lines 764-914), then the roster of the directory tab
\* (line 1050); an error raised by the scoring ends the run
RunSearch ==
    /\ main_pc = "rerun"
    /\ search_input # <<>>
    /\ LET search_terms == SearchTerms(search_input)
           industries == CachedListQuery("industries", cached_lists, sql_errors)
           roster == CachedListQuery("roster", cached_lists, sql_errors)
       IN  \E fs \in SearchFreestyleExperts(skills_table, search_terms, sql_errors),
              sf \in SearchSalesforceExperts(opportunity_table, search_terms, sql_errors) :
             \E extracted \in AllExtractions(fs.df, search_terms, Len(fs.df)) :
                LET result == SearchPipeline(fs.df, extracted, sf.df, filters)
                IN  /\ freestyle_df' = fs.df
                    /\ salesforce_df' = sf.df
                    /\ row_skills' = extracted
                    /\ experts_data' = result.linked
                    /\ date_filtered' = result.dated
                    /\ IF result.raises
                       THEN /\ sorted_experts' = <<>>
                            /\ notices' = industries.notices \o fs.notices \o sf.notices
                            /\ queries' = industries.queries \o fs.queries \o sf.queries
                            /\ cached_lists' = cached_lists \cup {"industries"}
                            /\ main_pc' = "error"
                       ELSE /\ sorted_experts' = result.sorted
                            /\ notices' = industries.notices \o fs.notices \o sf.notices
                                              \o roster.notices
                            /\ queries' = industries.queries \o fs.queries \o sf.queries
                                              \o roster.queries
                            /\ cached_lists' = {"industries", "roster"}
                            /\ main_pc' = "shown"
    /\ UNCHANGED <<skills_table, opportunity_table, sql_errors, search_input, filters>>

\* one run of main() with an empty search input: nothing is searched
\* (lines 761-764), the industry list and the roster are fetched
RunWithoutInput ==
    /\ main_pc = "rerun"
    /\ search_input = <<>>
    /\ sorted_experts' = <<>>
    /\ LET industries == CachedListQuery("industries", cached_lists, sql_errors)
           roster == CachedListQuery("roster", cached_lists, sql_errors)
       IN  /\ notices' = industries.notices \o roster.notices
           /\ queries' = industries.queries \o roster.queries
    /\ cached_lists' = {"industries", "roster"}
    /\ main_pc' = "shown"
    /\ UNCHANGED <<skills_table, opportunity_table, sql_errors, search_input, filters,
                   freestyle_df, salesforce_df, row_skills, experts_data, date_filtered>>

---------------------------------------------------------------------------
(* st.cache_data: the stored results of the five cached methods            *)

\* a variant with one lifetime for every method
TtlSameForAll(fn) == 300

\* lines 77, 151, 210: ttl=300 seconds; lines 457, 573: ttl=600 seconds
Ttl(fn) ==
    IF fn \in {"get_all_sales_engineers", "get_top_industries"} THEN 600 ELSE 300

\* the stored result of a method for its arguments (_self is no part of the
\* key): a set with at most one entry
Stored(store, fn, args) == {e \in store : e.fn = fn /\ e.args = args}

\* whether a stored result is still returned at time now: it is before its
\* ttl has passed and is not afterwards; at the instant the ttl has passed
\* the outcome differs between versions of the cache library
StillValid(e, now) ==
    IF now - e.at < Ttl(e.fn) THEN {TRUE}
    ELSE IF now - e.at = Ttl(e.fn) THEN {TRUE, FALSE}
    ELSE {FALSE}

\* the outcomes of looking a call up in the store
CacheHit(store, fn, args, now) ==
    IF Stored(store, fn, args) = {} THEN {FALSE}
    ELSE UNION {StillValid(e, now) : e \in Stored(store, fn, args)}

\* a variant that stores nothing after a failed query
StoreResultUnlessFailed(store, fn, args, now, result) ==
    IF result.failed THEN store \ {e \in store : e.fn = fn /\ e.args = args}
    ELSE (store \ {e \in store : e.fn = fn /\ e.args = args})
             \cup {[fn |-> fn, args |-> args, at |-> now, result |-> result]}

\* what a query returns: the time at which the data were read, and whether
\* the query raised, in which case the except branch returns an empty frame
\* (lines 208, 250) or the fallback list (line 597)
QueryResult(now, raised) == [read_at |-> now, failed |-> raised]

\* the store after the return value of a call was stored
StoreResult(store, fn, args, now, result) ==
    (store \ Stored(store, fn, args))
        \cup {[fn |-> fn, args |-> args, at |-> now, result |-> result]}

StoredResult(store, fn, args) == (CHOOSE e \in Stored(store, fn, args) : TRUE).result

MaxCalls == 3
MaxClock == 750

\* the term lists the cached searches are called with
CacheTermLists == {<<Txt_Databricks>>, <<Txt_Spark, Txt_Databricks>>}

CacheStart ==
    /\ cache_store = {}
    /\ cache_now = 0
    /\ cache_call = [fn |-> "none", args |-> <<>>, executed |-> <<>>,
                     result |-> QueryResult(0, FALSE)]
    /\ cache_count = 0

\* lines 210-250, 457-571, 573-597: a call of a cached method that runs one
\* query inside try/except; what it returns is stored, also after a failure
CallCachedQuery ==
    /\ cache_count < MaxCalls
    /\ \E key \in {[fn |-> "search_salesforce_experts", args |-> t] : t \in CacheTermLists}
                      \cup {[fn |-> "get_all_sales_engineers", args |-> <<>>],
                            [fn |-> "get_top_industries", args |-> <<>>]} :
          \E hit \in CacheHit(cache_store, key.fn, key.args, cache_now), raises \in BOOLEAN :
             IF hit
             THEN /\ cache_call' = [fn |-> key.fn, args |-> key.args, executed |-> <<>>,
                                    result |-> StoredResult(cache_store, key.fn, key.args)]
                  /\ UNCHANGED cache_store
             ELSE /\ cache_call' = [fn |-> key.fn, args |-> key.args,
                                    executed |-> <<key.fn>>,
                                    result |-> QueryResult(cache_now, raises)]
                  /\ cache_store' = StoreResult(cache_store, key.fn, key.args, cache_now,
                                                QueryResult(cache_now, raises))
    /\ cache_count' = cache_count + 1
    /\ UNCHANGED cache_now

\* lines 77-149 and 151-208: a call of search_freestyle_experts; when its
\* query raises it calls _search_freestyle_simple, which is cached by itself
CallSearchFreestyle ==
    /\ cache_count < MaxCalls
    /\ \E terms \in CacheTermLists, precise_raises \in BOOLEAN, fallback_raises \in BOOLEAN :
          \E hit \in CacheHit(cache_store, "search_freestyle_experts", terms, cache_now) :
             IF hit
             THEN /\ cache_call' = [fn |-> "search_freestyle_experts", args |-> terms,
                                    executed |-> <<>>,
                                    result |-> StoredResult(cache_store,
                                                   "search_freestyle_experts", terms)]
                  /\ UNCHANGED cache_store
             ELSE IF ~precise_raises
             THEN /\ cache_call' = [fn |-> "search_freestyle_experts", args |-> terms,
                                    executed |-> <<"precise">>,
                                    result |-> QueryResult(cache_now, FALSE)]
                  /\ cache_store' = StoreResult(cache_store, "search_freestyle_experts",
                                                terms, cache_now,
                                                QueryResult(cache_now, FALSE))
             ELSE \E simple_hit \in CacheHit(cache_store, "_search_freestyle_simple",
                                             terms, cache_now) :
                     LET returned == IF simple_hit
                                     THEN StoredResult(cache_store,
                                              "_search_freestyle_simple", terms)
                                     ELSE QueryResult(cache_now, fallback_raises)
                         simple_store == IF simple_hit THEN cache_store
                                         ELSE StoreResult(cache_store,
                                                  "_search_freestyle_simple", terms,
                                                  cache_now, returned)
                     IN  /\ cache_call' = [fn |-> "search_freestyle_experts", args |-> terms,
                                           executed |-> IF simple_hit THEN <<"precise">>
                                                        ELSE <<"precise", "fallback">>,
                                           result |-> returned]
                         /\ cache_store' = StoreResult(simple_store,
                                               "search_freestyle_experts", terms,
                                               cache_now, returned)
    /\ cache_count' = cache_count + 1
    /\ UNCHANGED cache_now

\* time passes, in steps of 150 seconds
Tick ==
    /\ cache_now + 150 <= MaxClock
    /\ cache_now' = cache_now + 150
    /\ UNCHANGED <<cache_store, cache_call, cache_count>>

---------------------------------------------------------------------------
(* The specifications *)

ParseNext == ParseField /\ UNCHANGED <<scoreVars, extractVars, mainVars, cacheVars>>

InitParse == ParseStart /\ ScoreIdle /\ ExtractIdle /\ MainIdle /\ CacheStart

SpecParse == InitParse /\ [][ParseNext]_vars

MaxListLen == 3

\* the parsing steps run on a column that holds a list of strings
InitNative ==
    /\ field_value \in
           {[kind |-> "list", val |-> l] :
                l \in UNION {[1..n -> {Str(<<"a">>), Str(<<"b", " ", "c">>), Str(<<>>),
                                       Str(<<" ">>)}] : n \in 0..MaxListLen}}
    /\ skill_matches = <<>>
    /\ parse_pc = "read"
    /\ ScoreIdle /\ ExtractIdle /\ MainIdle /\ CacheStart

SpecNative == InitNative /\ [][ParseNext]_vars

ScoreNext ==
    \/ AppendOpportunity /\ UNCHANGED <<parseVars, extractVars, mainVars, cacheVars>>
    \/ ScoreExpert /\ UNCHANGED <<parseVars, extractVars, mainVars, cacheVars>>

InitScore == ScoreStart /\ ParseIdle /\ ExtractIdle /\ MainIdle /\ CacheStart

SpecScore == InitScore /\ [][ScoreNext]_vars

---------------------------------------------------------------------------
(* Claims about the relevance score, checked under SpecScore *)

\* the four parts of the score of the scored expert
ScoredSkillPart == SkillPoints(expert_data.skills)
ScoredCertPart == CertificationPoints(expert_data.skills)
ScoredSpecialtyPart == SpecialtyPoints(expert_data.skills)
ScoredOppPart == IF expert_data.opportunities # <<>> THEN OpportunityPoints(opp_score) ELSE 0

\* C1: for every combination of skill buckets and every list of linked
\* opportunities the returned score lies in [0, 100]; the skill part is at most
\* 40, the certification part at most 15, the specialty part at most 10, the
\* opportunity part at most 35, and the score is the sum of the four parts.
C1_ScoreWithinBounds ==
    score_pc = "scored" =>
        /\ relevance_score \in 0..100
        /\ ScoredSkillPart \in 0..40
        /\ ScoredCertPart \in 0..15
        /\ ScoredSpecialtyPart \in 0..10
        /\ ScoredOppPart \in 0..35
        /\ relevance_score = ScoredSkillPart + ScoredCertPart
                               + ScoredSpecialtyPart + ScoredOppPart

\* C1 witness: an expert scored at the maximum, every part at its cap
C1_Witness ==
    /\ score_pc = "scored"
    /\ relevance_score = 100
    /\ opp_score > 35
    /\ Len(expert_data.skills.certifications) = 6

\* whether the three proficiency buckets of two skill records are empty alike
SameFlags(a, b) ==
    /\ (a.high_proficiency = <<>>) <=> (b.high_proficiency = <<>>)
    /\ (a.medium_proficiency = <<>>) <=> (b.medium_proficiency = <<>>)
    /\ (a.basic_proficiency = <<>>) <=> (b.basic_proficiency = <<>>)

\* C3: the skill part is 25 if the high bucket is non-empty, plus 12 if the
\* medium bucket is non-empty, plus 3 if the basic bucket is non-empty, whatever
\* the number of skills in a bucket: nothing at all scores 0, one high skill
\* alone scores 25, and more skills in a non-empty bucket leave the score as it is.
C3_SkillFlagsNotCounts ==
    score_pc = "scored" =>
        LET k == expert_data.skills
            flags == (IF Len(k.high_proficiency) > 0 THEN 25 ELSE 0)
                   + (IF Len(k.medium_proficiency) > 0 THEN 12 ELSE 0)
                   + (IF Len(k.basic_proficiency) > 0 THEN 3 ELSE 0)
        IN  /\ relevance_score - ScoredCertPart - ScoredSpecialtyPart - ScoredOppPart
                   = flags
            /\ (k = Buckets(0, 0, 0, 0, 0) /\ expert_data.opportunities = <<>>)
                   => relevance_score = 0
            /\ (k = Buckets(1, 0, 0, 0, 0) /\ expert_data.opportunities = <<>>)
                   => relevance_score = 25
            /\ \A other \in ScoreSkillKinds :
                   (/\ SameFlags(k, other)
                    /\ other.certifications = k.certifications
                    /\ other.specialties = k.specialties)
                   => CalculateRelevanceScore([expert_data EXCEPT !.skills = other])
                          = relevance_score

\* C3 witness: two high-proficiency skills and nothing else score 25
C3_Witness ==
    /\ score_pc = "scored"
    /\ expert_data.skills = Buckets(2, 0, 0, 0, 0)
    /\ expert_data.opportunities = <<>>
    /\ relevance_score = 25

\* "CLOSED WON" in any letter case somewhere in the stage text
StageSaysClosedWon(stage) ==
    /\ stage.kind = "str"
    /\ \E i \in 1..Len(stage.val) :
           /\ i + 9 <= Len(stage.val)
           /\ \A j \in 1..10 : UpperChar(stage.val[i + j - 1]) = Txt_CLOSED_WON[j]

\* the amount as a positive number, 0 for a null, zero or negative amount
PositiveAmount(amount) ==
    IF amount.kind = "num" THEN (IF amount.val[1] > 0 THEN amount.val[1] ELSE 0) ELSE 0

\* the bonus of the largest threshold the amount reaches
LargestThresholdBonus(n) ==
    LET reached == {t \in {100000, 500000, 1000000} : n >= t}
    IN  IF reached = {} THEN 0
        ELSE LET top == CHOOSE t \in reached : \A u \in reached : u <= t
             IN  CASE top = 1000000 -> 8 [] top = 500000 -> 5 [] top = 100000 -> 2

\* what one opportunity contributes before the cap
Contribution(opp) ==
    2 + (IF StageSaysClosedWon(opp.stage) THEN 5 ELSE 0)
      + LargestThresholdBonus(PositiveAmount(opp.amount))

RECURSIVE SumOver(_, _, _)
SumOver(Op(_), seq, n) == IF n = 0 THEN 0 ELSE SumOver(Op, seq, n - 1) + Op(seq[n])

AmountOfOpp(opp) == PositiveAmount(opp.amount)

\* C4: before the cap every linked opportunity contributes 2, plus 5 when its
\* stage contains "CLOSED WON" in any letter case, plus the bonus of the largest
\* amount threshold reached (8, 5, 2 or 0); an opportunity of 1,000,000 at stage
\* "Closed Won" contributes 15; a null, zero or negative amount earns no bonus
\* and adds nothing to the portfolio total.
C4_PerOpportunityPoints ==
    score_pc = "scored" =>
        LET opps == expert_data.opportunities
        IN  /\ opp_score - MultiWinBonus(closed_won_count) * (IF opps = <<>> THEN 0 ELSE 1)
                         - PortfolioBonus(total_acv) * (IF opps = <<>> THEN 0 ELSE 1)
                   = SumOver(Contribution, opps, Len(opps))
            /\ total_acv = SumOver(AmountOfOpp, opps, Len(opps))
            /\ opps = <<[stage |-> Str(Txt_Closed_Won), amount |-> Num(1000000)]>>
                   => opp_score = 15
            /\ \A i \in 1..Len(opps) :
                   (opps[i].amount.kind # "num" \/ opps[i].amount.val[1] <= 0)
                       => Contribution(opps[i]) \in {2, 7}

\* C4 witness: the single opportunity of 1,000,000 at stage "Closed Won"
C4_Witness ==
    /\ score_pc = "scored"
    /\ expert_data.opportunities
           = <<[stage |-> Str(Txt_Closed_Won), amount |-> Num(1000000)]>>
    /\ opp_score = 15

\* C5: the multi-win bonus (10 for three or more Closed-Won opportunities, 5 for
\* exactly two, else 0) and the portfolio bonus (10 for a total of positive
\* amounts of 5,000,000 or more, 5 from 2,000,000 up to below 5,000,000, else 0)
\* are each added once per expert after the per-opportunity sum.
C5_BonusesOncePerExpert ==
    (score_pc = "scored" /\ expert_data.opportunities # <<>>) =>
        LET opps == expert_data.opportunities
            wins == Cardinality({i \in 1..Len(opps) : StageSaysClosedWon(opps[i].stage)})
            total == SumOver(AmountOfOpp, opps, Len(opps))
            win_bonus == IF wins >= 3 THEN 10 ELSE IF wins = 2 THEN 5 ELSE 0
            acv_bonus == IF total >= 5000000 THEN 10
                         ELSE IF total >= 2000000 /\ total < 5000000 THEN 5 ELSE 0
        IN  opp_score = ScoreOpportunities(opps, Len(opps)).opp_score
                          + win_bonus + acv_bonus

\* C5 witness: three wins and a portfolio of 5,000,000: both top bonuses, once
C5_Witness ==
    /\ score_pc = "scored"
    /\ closed_won_count = 3
    /\ total_acv = 5000000
    /\ opp_score = 15 + 15 + 7 + 10 + 10

---------------------------------------------------------------------------
(* Claims about the parsing of an array field, checked under SpecParse *)

\* the k-th smallest member of a set of positions
NthOf(S, k) == CHOOSE i \in S : Cardinality({j \in S : j < i}) = k - 1

\* the texts between the 1st and 2nd, the 3rd and 4th, ... occurrence of q
QuotedSubstrings(s, q) ==
    LET P == {i \in 1..Len(s) : s[i] = q}
    IN  [k \in 1..(Cardinality(P) \div 2) |->
             Str(SubSeq(s, NthOf(P, 2 * k - 1) + 1, NthOf(P, 2 * k) - 1))]

\* the trimmed text as one element, or nothing when it is blank
OneElementUnlessBlank(s) == IF Strip(s) = <<>> THEN <<>> ELSE <<Str(Strip(s))>>

\* the described result for a bracketed text
DescribedBracketed(t) ==
    LET inner == StripChars(t, {"[", "]"})
    IN  IF \E i \in 1..Len(inner) : inner[i] = "\""
        THEN QuotedSubstrings(inner, "\"")
        ELSE IF \E i \in 1..Len(inner) : inner[i] = "'"
        THEN QuotedSubstrings(inner, "'")
        ELSE OneElementUnlessBlank(inner)

IsBracketed(t) == Len(t) > 0 /\ t[1] = "[" /\ t[Len(t)] = "]"

\* C10 as stated: a bracketed text gives its double-quoted substrings, else its
\* single-quoted substrings, else the trimmed remainder as one element (nothing
\* if blank); ANY other text gives its trimmed text as one element; the empty
\* string and a null value give the empty sequence.
C10_AsStated ==
    parse_pc = "parsed" =>
        skill_matches =
            IF field_value = NullV \/ field_value = Str(<<>>) THEN <<>>
            ELSE IF IsBracketed(field_value.val) THEN DescribedBracketed(field_value.val)
            ELSE <<Str(Strip(field_value.val))>>

\* C10 (amended): as stated, except that a text without the brackets yields its
\* trimmed text as one element only when that is not blank, and nothing when
\* the text holds whitespace only. The parse always ends with a sequence of
\* strings; '["A","B"]' gives A and B, "['x']" gives x, "plain" gives plain.
C10_ParseAsDescribed ==
    parse_pc = "parsed" =>
        /\ skill_matches =
               IF field_value = NullV \/ field_value = Str(<<>>) THEN <<>>
               ELSE IF IsBracketed(field_value.val)
                    THEN DescribedBracketed(field_value.val)
               ELSE OneElementUnlessBlank(field_value.val)
        /\ \A i \in 1..Len(skill_matches) : skill_matches[i].kind = "str"
        /\ field_value = Str(Txt_AB) => skill_matches = <<Str(<<"A">>), Str(<<"B">>)>>
        /\ field_value = Str(Txt_x) => skill_matches = <<Str(<<"x">>)>>
        /\ field_value = Str(Txt_plain) => skill_matches = <<Str(Txt_plain)>>

\* C10 witness: the text ["it's"], which holds both kinds of quote, parsed to
\* its one double-quoted element
C10_Witness ==
    /\ parse_pc = "parsed"
    /\ field_value = Str(Txt_its)
    /\ skill_matches = <<Str(<<"i", "t", "'", "s">>)>>

ExtractNext == ExtractSkills /\ UNCHANGED <<parseVars, scoreVars, mainVars, cacheVars>>

InitExtract == ExtractStart /\ ParseIdle /\ ScoreIdle /\ MainIdle /\ CacheStart

SpecExtract == InitExtract /\ [][ExtractNext]_vars

Next ==
    \/ RunSearch /\ UNCHANGED <<parseVars, scoreVars, extractVars, cacheVars>>
    \/ RunWithoutInput /\ UNCHANGED <<parseVars, scoreVars, extractVars, cacheVars>>

Init == MainStart /\ ParseIdle /\ ScoreIdle /\ ExtractIdle /\ CacheStart

Spec == Init /\ [][Next]_vars

\* one run in which queries can fail, the caches of the two lists can be
\* empty, an opportunity can come without stage, a term can hold a quote or
\* be empty, a skills row (Cy, with Ann's skills) can hold an empty
\* manager-scored array and another (Di) nothing but an empty array
InitFailures ==
    /\ skills_table \in
           SubsetsUpTo(SkillsRows
                           \cup {[NullSkillsRow EXCEPT
                                      !.EMPLOYEE_ID = Str(<<"E", "3">>),
                                      !.USER_ID = Str(<<"U", "4">>),
                                      !.NAME = Str(<<"C", "y">>),
                                      !.SELF_ASSESMENT_SKILL_400 = Arr(<<Str(Txt_Databricks)>>),
                                      !.MGR_SCORE_SKILL_100 = Arr(<<>>)],
                                 [NullSkillsRow EXCEPT
                                      !.EMPLOYEE_ID = Str(<<"E", "4">>),
                                      !.USER_ID = Str(<<"U", "5">>),
                                      !.NAME = Str(<<"D", "i">>),
                                      !.CERT_EXTERNAL = Arr(<<>>)]},
                       MaxSkillRows)
    /\ opportunity_table \in
           SubsetsUpTo(OpportunityRows
                           \cup {[o EXCEPT !.STAGE_NAME = NullV, !.ID = Str(<<"O", "6">>),
                                           !.OPPORTUNITY_NAME = Str(<<"O", "6">>)] :
                                     o \in {p \in OpportunityRows : p.CLOSE_DATE = Date(Today - 100)}},
                       1)
    /\ sql_errors \in SUBSET {"precise", "fallback", "opportunity"}
                       \cup {{"precise", "fallback", "opportunity", "industries", "roster"}}
    /\ cached_lists \in {{}, {"industries", "roster"}}
    /\ search_input \in SearchInputs
                         \cup {<<"D", "a", "t", "a", "b", "r", "i", "c", "k", "s", ",", "o", "'", "r">>,
                               <<"S", "p", "a", "r", "k", ",">>}
    /\ filters \in {NoFilters, [NoFilters EXCEPT !.industry_filter = {Technology}],
                    [NoFilters EXCEPT !.min_skill_level = "High (300-400)"],
                    [NoFilters EXCEPT !.require_manager_endorsement = TRUE]}
    /\ freestyle_df = <<>> /\ salesforce_df = <<>> /\ row_skills = <<>>
    /\ experts_data = <<>> /\ date_filtered = <<>> /\ sorted_experts = <<>>
    /\ notices = <<>> /\ queries = <<>>
    /\ main_pc = "rerun"
    /\ ParseIdle /\ ScoreIdle /\ ExtractIdle /\ CacheStart

SpecFailures == InitFailures /\ [][Next]_vars

CacheNext ==
    \/ CallCachedQuery /\ UNCHANGED <<parseVars, scoreVars, extractVars, mainVars>>
    \/ CallSearchFreestyle /\ UNCHANGED <<parseVars, scoreVars, extractVars, mainVars>>
    \/ Tick /\ UNCHANGED <<parseVars, scoreVars, extractVars, mainVars>>

InitCache == CacheStart /\ ParseIdle /\ ScoreIdle /\ ExtractIdle /\ MainIdle

SpecCache == InitCache /\ [][CacheNext]_vars

---------------------------------------------------------------------------
(* Claims about extract_relevant_skills, checked under SpecExtract *)

\* the parsed elements of the fields of bucket k of the extracted record
ParsedElements(k) ==
    UNION {Range(ParseArrayField(extract_row[c])) : c \in Range(BucketColumns[k])}

\* the non-empty elements of bucket k's fields whose upper-cased text contains
\* the upper-cased form of at least one search term
ElementsContainingATerm(k) ==
    {e \in ParsedElements(k) :
         /\ Len(e.val) > 0
         /\ \E i \in 1..Len(extract_terms) :
                Contains(Upper(e.val), Upper(extract_terms[i]))}

\* C6: every output bucket is exactly the duplicate-free collection of the
\* non-empty parsed elements of its fields whose upper-cased text contains the
\* upper-cased form of a search term; the term "aws" selects "AWS Certified".
C6_BucketsHoldExactlyTheMatches ==
    extract_pc = "returned" =>
        \A k \in BucketKeys :
            /\ Range(skills_found[k]) = ElementsContainingATerm(k)
            /\ Len(skills_found[k]) = Cardinality(ElementsContainingATerm(k))
            /\ (Str(Txt_AWS_Certified) \in ParsedElements(k) /\ extract_terms = <<Txt_aws>>)
                   => Str(Txt_AWS_Certified) \in Range(skills_found[k])

\* C6 witness: the term "aws" against two high-proficiency fields that hold
\* "AWS Certified" once, "aws" three times, "Spark" and an empty element
C6_Witness ==
    /\ extract_pc = "returned"
    /\ extract_terms = <<Txt_aws>>
    /\ extract_row["SELF_ASSESMENT_SKILL_300"] = Str(Txt_AWS_list)
    /\ extract_row["MGR_SCORE_SKILL_400"] = Str(Txt_Spark_list)
    /\ skills_found.high_proficiency = <<Str(Txt_aws), Str(Txt_AWS_Certified)>>

---------------------------------------------------------------------------
(* Claims about the search, checked under Spec *)

Searched == main_pc = "shown" /\ search_input # <<>>

Txt_Databricks_list == <<"[", "\"", "D", "a", "t", "a", "b", "r", "i", "c", "k", "s", "\"", "]">>
Txt_empty_list == <<"[", "]">>

\* the one skills record and the one opportunity row of the end-to-end example
ExampleSkillsRecord(r) ==
    /\ ~IsNull(r.EMPLOYEE_ID)
    /\ ToPandasValue(r.SELF_ASSESMENT_SKILL_400) = Str(Txt_Databricks_list)
    /\ ToPandasValue(r.CERT_EXTERNAL) = Str(Txt_empty_list)
    /\ \A c \in ArrayColumns \ {"SELF_ASSESMENT_SKILL_400", "CERT_EXTERNAL"} : IsNull(r[c])

ExampleOpportunity(o, r) ==
    /\ o.OWNER_ID = r.USER_ID
    /\ o.PRIMARY_COMPETITOR_C = Str(Txt_Databricks)
    /\ o.AMOUNT = Num(1200000)
    /\ o.STAGE_NAME = Str(Txt_Closed_Won)
    /\ o.CLOSE_DATE.val[1] \in (Today - 365)..Today

ExampleSearch ==
    /\ Searched
    /\ search_input = Txt_Databricks
    /\ filters = NoFilters
    /\ Cardinality(skills_table) = 1
    /\ Cardinality(opportunity_table) = 1
    /\ \A r \in skills_table : ExampleSkillsRecord(r)
    /\ \A r \in skills_table : \A o \in opportunity_table : ExampleOpportunity(o, r)

ExampleResult ==
    /\ Len(sorted_experts) = 1
    /\ \A r \in skills_table : sorted_experts[1].key = r.EMPLOYEE_ID
    /\ sorted_experts[1].value.skills.high_proficiency = <<Str(Txt_Databricks)>>
    /\ sorted_experts[1].value.opportunity_count = 1
    /\ sorted_experts[1].value.relevance_score = 40

\* C2 as stated: one skills record for E1 with SELF_ASSESMENT_SKILL_400
\* '["Databricks"]' and CERT_EXTERNAL '[]', one opportunity row owned by E1's
\* user (competitor Databricks, amount 1200000, Closed Won, closed within the
\* last year), a search for "Databricks" without filters: exactly one result,
\* for E1, high-proficiency skills ["Databricks"], opportunity count 1, score 40.
C2_AsStated == ExampleSearch => ExampleResult

\* the lead sales engineer of the example's row is not E1's user
LeadIsSomeoneElse ==
    \A r \in skills_table : \A o \in opportunity_table :
        IsNull(o.LEAD_SALES_ENGINEER_C) \/ o.LEAD_SALES_ENGINEER_C # r.USER_ID

\* C2: the same example with the opportunity row's lead sales engineer null or
\* different from E1's user: exactly one result, for E1, with high-proficiency
\* skills ["Databricks"], opportunity count 1 and relevance score 40.
C2_EndToEndExample == (ExampleSearch /\ LeadIsSomeoneElse) => ExampleResult

C2_Witness ==
    /\ ExampleSearch /\ LeadIsSomeoneElse
    /\ Len(salesforce_df) = 1
    /\ Len(sorted_experts) = 1
    /\ Len(sorted_experts[1].value.opportunities) = 1

\* the expert is still there after the date range filter
KeptByRecency(e) == \E j \in 1..Len(date_filtered) : date_filtered[j].key = e.key

RecencyDays ==
    [c \in DateRanges \ {"All time"} |->
        IF c = "Last 6 months" THEN 180 ELSE IF c = "Last year" THEN 365 ELSE 730]

\* the latest close date among the opportunities is on or after the cutoff
LatestOnOrAfterCutoff(opportunities, date_range) ==
    \E k \in 1..Len(opportunities) :
        /\ \A m \in 1..Len(opportunities) :
               opportunities[m].close_date.val[1] <= opportunities[k].close_date.val[1]
        /\ opportunities[k].close_date.val[1] >= Today - RecencyDays[date_range]

\* C7: under every recency setting an expert without linked opportunity is
\* kept by the recency filter; an expert with linked opportunities is kept by a
\* setting other than "All time" exactly when the latest close date among them
\* is on or after the cutoff date.
C7_RecencyFilter ==
    Searched =>
        \A i \in 1..Len(experts_data) :
            LET e == experts_data[i]
            IN  /\ e.value.opportunities = <<>> => KeptByRecency(e)
                /\ (e.value.opportunities # <<>> /\ filters.date_range # "All time") =>
                       (KeptByRecency(e) <=>
                            LatestOnOrAfterCutoff(e.value.opportunities, filters.date_range))

C7_Witness ==
    /\ Searched
    /\ filters.date_range # "All time"
    /\ \E i \in 1..Len(experts_data) :
           experts_data[i].value.opportunities = <<>> /\ KeptByRecency(experts_data[i])
    /\ \E i \in 1..Len(experts_data) :
           experts_data[i].value.opportunities # <<>> /\ ~KeptByRecency(experts_data[i])

\* the expert's opportunity list has the row, in this role
LinkedAs(data, row, role) ==
    \E k \in 1..Len(data.opportunities) :
        /\ data.opportunities[k].name = row.OPPORTUNITY_NAME
        /\ data.opportunities[k].role = role
        /\ data.opportunities[k].stage = row.STAGE_NAME
        /\ data.opportunities[k].amount = row.AMOUNT
        /\ data.opportunities[k].close_date = row.CLOSE_DATE

\* wherever the expert is in the result, the row's points are in its score
CountsTowardScore(key, row) ==
    \A s \in 1..Len(sorted_experts) :
        sorted_experts[s].key = key =>
            LET data == sorted_experts[s].value
            IN  data.relevance_score
                    - (SkillPoints(data.skills) + CertificationPoints(data.skills)
                           + SpecialtyPoints(data.skills))
                  >= Min(35, Contribution([stage |-> row.STAGE_NAME, amount |-> row.AMOUNT]))

\* C8: an opportunity row whose lead sales-engineer identifier and owner
\* identifier are both non-null and are the user identifiers of two different
\* experts is linked to both, to the first as "Lead Sales Engineer" and to the
\* second as "Opportunity Owner", and counts toward the score of each.
C8_LinkedToLeadAndOwner ==
    Searched =>
        \A r \in 1..Len(salesforce_df) : \A a, b \in 1..Len(experts_data) :
            LET row == salesforce_df[r]
                lead == experts_data[a]
                owner == experts_data[b]
            IN  (/\ ~IsNull(row.LEAD_SALES_ENGINEER_C) /\ ~IsNull(row.OWNER_ID)
                 /\ a # b
                 /\ lead.value.user_id = row.LEAD_SALES_ENGINEER_C
                 /\ owner.value.user_id = row.OWNER_ID)
                => /\ LinkedAs(lead.value, row, "Lead Sales Engineer")
                   /\ LinkedAs(owner.value, row, "Opportunity Owner")
                   /\ CountsTowardScore(lead.key, row)
                   /\ CountsTowardScore(owner.key, row)

C8_Witness ==
    /\ Searched
    /\ Len(sorted_experts) = 2
    /\ \E r \in 1..Len(salesforce_df) : \E a, b \in 1..Len(sorted_experts) :
           /\ a # b
           /\ ~IsNull(salesforce_df[r].LEAD_SALES_ENGINEER_C)
           /\ sorted_experts[a].value.user_id = salesforce_df[r].LEAD_SALES_ENGINEER_C
           /\ sorted_experts[b].value.user_id = salesforce_df[r].OWNER_ID

\* the result of the same query results and extraction results with every
\* filter off
UnfilteredResult ==
    SearchPipeline(freestyle_df, row_skills, salesforce_df, NoFilters).sorted

\* C9: the experts in the result are among those returned with every filter
\* off, and each has the matched skills, the linked opportunities and the
\* relevance score it has in the unfiltered result.
C9_FiltersOnlyRemove ==
    Searched =>
        \A i \in 1..Len(sorted_experts) :
            \E j \in 1..Len(UnfilteredResult) :
                /\ UnfilteredResult[j].key = sorted_experts[i].key
                /\ UnfilteredResult[j].value.skills = sorted_experts[i].value.skills
                /\ UnfilteredResult[j].value.opportunities
                       = sorted_experts[i].value.opportunities
                /\ UnfilteredResult[j].value.relevance_score
                       = sorted_experts[i].value.relevance_score

---------------------------------------------------------------------------
(* Claims about list-valued fields, checked under SpecNative *)

\* the elements that are neither empty nor whitespace only, in order
NonBlankElements(elems) ==
    LET NonBlank(e) == Strip(e.val) # <<>> IN SelectSeq(elems, NonBlank)

\* C11: a field that holds a list of strings of any length (zero, one, two or
\* more elements) is parsed without an error, and the elements that are not
\* blank pass through in order, so that parsing the result again gives it back.
C11_NativeListsPassThrough ==
    (parse_pc \in {"parsed", "raised"} /\ field_value.kind = "list") =>
        /\ parse_pc = "parsed"
        /\ NonBlankElements(skill_matches) = NonBlankElements(field_value.val)
        /\ NonBlankElements(NonBlankElements(skill_matches)) = NonBlankElements(skill_matches)

---------------------------------------------------------------------------
(* Claims about failing queries, checked under SpecFailures *)

\* a run with a search input has ended, with a result or with an error
SearchRun == main_pc \in {"shown", "error"} /\ search_input # <<>>

\* the skills queries of the run, in the order in which they were executed
SkillsQueries ==
    LET OnSkills(q) == q.query \in {"precise", "fallback"}
        run == SelectSeq(queries, OnSkills)
    IN  [i \in 1..Len(run) |-> run[i].query]

\* the messages of the skills search among the messages shown
SkillsNotices ==
    LET FromSkills(n) == n \in {"info: Using simplified search",
                                "error: Both search methods failed"}
    IN  SelectSeq(notices, FromSkills)

\* the rows of freestyle_df are the rows of the skills table that meet the condition
ReturnsPreciseRows ==
    Range(freestyle_df)
        = {ToPandasRow(r) : r \in {s \in skills_table :
                                       PreciseWhere(s, SearchTerms(search_input))}}
ReturnsFallbackRows ==
    Range(freestyle_df)
        = {ToPandasRow(r) : r \in {s \in skills_table :
                                       FallbackWhere(s, SearchTerms(search_input))}}

\* C12: the precise skills query is always tried first; the fallback query is
\* run if and only if the precise one raised, and once; a successful precise
\* query returns its rows without notice; a successful fallback returns its
\* rows with the notice of the simplified search; when the fallback fails too
\* an error message is shown and the result set is empty. There is never a
\* third skills query.
C12_TwoStepSkillsSearch ==
    SearchRun =>
        /\ "precise" \notin sql_errors =>
               /\ SkillsQueries = <<"precise">>
               /\ ReturnsPreciseRows
               /\ SkillsNotices = <<>>
        /\ ("precise" \in sql_errors /\ "fallback" \notin sql_errors) =>
               /\ SkillsQueries = <<"precise", "fallback">>
               /\ ReturnsFallbackRows
               /\ SkillsNotices = <<"info: Using simplified search">>
        /\ ("precise" \in sql_errors /\ "fallback" \in sql_errors) =>
               /\ SkillsQueries = <<"precise", "fallback">>
               /\ freestyle_df = <<>>
               /\ SkillsNotices = <<"error: Both search methods failed">>

C12_Witness ==
    /\ SearchRun
    /\ "precise" \in sql_errors /\ "fallback" \notin sql_errors
    /\ Len(freestyle_df) = 2
    /\ SkillsNotices = <<"info: Using simplified search">>


\* the opportunity query of the run raises: the source fails, or a term with
\* a quote breaks the query text
OpportunityQueryFails ==
    \/ "opportunity" \in sql_errors
    \/ \E i \in 1..Len(SearchTerms(search_input)) : HasChar(SearchTerms(search_input)[i], "'")

SkillsQuerySucceeds == ~({"precise", "fallback"} \subseteq sql_errors)

\* C13: when the opportunity query fails and the skills query succeeds, an
\* error message is shown and the search returns the experts it returns with
\* zero opportunity rows: each has an empty opportunity list, opportunity
\* count 0, no last-activity date, an empty industry set, and a score that is
\* the sum of its skill, certification and specialty parts.
C13_OpportunityFailureKeepsSkillResults ==
    (SearchRun /\ OpportunityQueryFails /\ SkillsQuerySucceeds) =>
        /\ main_pc = "shown"
        /\ \E i \in 1..Len(notices) : notices[i] = "error: Error querying Salesforce data"
        /\ sorted_experts = SearchPipeline(freestyle_df, row_skills, <<>>, filters).sorted
        /\ \A i \in 1..Len(sorted_experts) :
               LET e == sorted_experts[i].value
               IN  /\ e.opportunities = <<>>
                   /\ e.opportunity_count = 0
                   /\ IsNull(e.last_activity)
                   /\ e.industries = {}
                   /\ e.relevance_score = SkillPoints(e.skills) + CertificationPoints(e.skills)
                                              + SpecialtyPoints(e.skills)

C13_Witness ==
    /\ SearchRun /\ "opportunity" \in sql_errors /\ SkillsQuerySucceeds
    /\ \E o \in opportunity_table : OpportunityWhere(o, SearchTerms(search_input))
    /\ Len(sorted_experts) = 2
    /\ sorted_experts[1].value.relevance_score > 0
    /\ sorted_experts[1].value.opportunity_count = 0


---------------------------------------------------------------------------
(* Claims about the aggregation and the order of the result *)

\* the employee identifiers of the returned skills rows
EmployeeIds == {freestyle_df[i].EMPLOYEE_ID : i \in 1..Len(freestyle_df)} \ {NullV}

\* the positions of the skills rows that have an employee identifier
RowsWithId ==
    LET HasId(i) == ~IsNull(freestyle_df[i].EMPLOYEE_ID)
    IN  SelectSeq([i \in 1..Len(freestyle_df) |-> i], HasId)

\* the result of the search had the skills query returned the rows with an
\* employee identifier only
ResultWithoutNullIds ==
    SearchPipeline([k \in 1..Len(RowsWithId) |-> freestyle_df[RowsWithId[k]]],
                   [k \in 1..Len(RowsWithId) |-> row_skills[RowsWithId[k]]],
                   salesforce_df, filters).sorted

\* C14: with no filter active the result holds exactly one expert for each
\* distinct non-null employee identifier among the skills rows and none for a
\* row whose employee identifier is null; such a row is dropped without a
\* message and the result is the one the other rows give alone.
C14_OneExpertPerEmployeeId ==
    (Searched /\ filters = NoFilters) =>
        /\ {sorted_experts[i].key : i \in 1..Len(sorted_experts)} = EmployeeIds
        /\ Len(sorted_experts) = Cardinality(EmployeeIds)
        /\ notices = <<>>
        /\ sorted_experts = ResultWithoutNullIds

C14_Witness ==
    /\ Searched /\ filters = NoFilters
    /\ \E i \in 1..Len(freestyle_df) : IsNull(freestyle_df[i].EMPLOYEE_ID)
    /\ Len(freestyle_df) = 2
    /\ Len(sorted_experts) = 1


\* the position of an employee identifier in experts_data, the dict in its
\* order of insertion; and the first skills row that carries it
InsertedAt(key) == CHOOSE i \in 1..Len(experts_data) : experts_data[i].key = key
FirstRowOf(key) ==
    CHOOSE i \in 1..Len(freestyle_df) :
        /\ freestyle_df[i].EMPLOYEE_ID = key
        /\ \A j \in 1..(i - 1) : freestyle_df[j].EMPLOYEE_ID # key

\* C15: the returned experts are in descending order of relevance score, and
\* experts of equal score are in the order in which the aggregation inserted
\* them, which is the order of the skills rows.
C15_DescendingAndStable ==
    (SearchRun /\ main_pc = "shown") =>
        \A i, j \in 1..Len(sorted_experts) :
            i < j =>
                /\ sorted_experts[i].value.relevance_score
                       >= sorted_experts[j].value.relevance_score
                /\ sorted_experts[i].value.relevance_score
                       = sorted_experts[j].value.relevance_score =>
                       /\ InsertedAt(sorted_experts[i].key) < InsertedAt(sorted_experts[j].key)
                       /\ FirstRowOf(sorted_experts[i].key) < FirstRowOf(sorted_experts[j].key)

C15_Witness ==
    /\ SearchRun /\ main_pc = "shown"
    /\ Len(sorted_experts) = 2
    /\ sorted_experts[1].value.relevance_score = sorted_experts[2].value.relevance_score
    /\ sorted_experts[1].value.relevance_score > 0


\* C16: for any data the sources can return (a null stage, amount or industry
\* of an opportunity, a null name, email or user identifier of a skills row,
\* malformed array text) a search runs to completion with a ranked result;
\* it never ends with an unhandled error.
C16_SearchNeverRaises ==
    SearchRun => main_pc # "error"


---------------------------------------------------------------------------
(* Claims about the cached queries, checked under SpecCache *)

\* a call of a cached method was made in the step
CallMade == cache_count' = cache_count + 1

\* the age of the stored result of the called method for the call's arguments
StoredFor(call) == Stored(cache_store, call.fn, call.args)

\* C17: query results are memoized by the list of search terms: a call of a
\* search with a term list whose result was stored less than 5 minutes ago
\* returns the stored result and executes no query; a call without a stored
\* result for its term list, or more than 5 minutes after it was stored,
\* executes the query again. The roster and the industry list behave the same
\* with a window of 10 minutes and no argument as key.
C17_ResultsAreMemoized ==
    [][CallMade =>
          LET call == cache_call'
              window == IF call.fn \in {"get_all_sales_engineers", "get_top_industries"}
                        THEN 10 * 60 ELSE 5 * 60
          IN  /\ \A e \in StoredFor(call) :
                    /\ cache_now - e.at < window =>
                           /\ call.executed = <<>>
                           /\ call.result = e.result
                           /\ cache_store' = cache_store
                    /\ cache_now - e.at > window => call.executed # <<>>
              /\ StoredFor(call) = {} => call.executed # <<>>
              /\ call.executed # <<>> =>
                     \E e \in Stored(cache_store', call.fn, call.args) : e.at = cache_now
      ]_vars

\* a roster call answered from the store more than 5 minutes after the query
C17_Witness ==
    /\ cache_call.fn = "get_all_sales_engineers"
    /\ cache_call.executed = <<>>
    /\ cache_now - cache_call.result.read_at > 300
    /\ \E e \in cache_store : e.fn = "search_freestyle_experts" /\ e.at = 0


---------------------------------------------------------------------------
(* Claims about the queries of one page run, checked under SpecFailures *)

\* the names of the queries of the run, in the order of their execution
QueryNames == [i \in 1..Len(queries) |-> queries[i].query]

\* the queries executed before the processing of the results starts (line
\* 772): all but the roster query of line 1050
QueriesBeforeProcessing ==
    LET Before(name) == name # "roster" IN SelectSeq(QueryNames, Before)

RECURSIVE EndsLiteral(_)
EndsLiteral(s) ==
    IF s = <<>> THEN FALSE
    ELSE IF Head(s) # "'" THEN EndsLiteral(Tail(s))
    ELSE IF Len(s) = 1 \/ s[2] # "'" THEN TRUE
    ELSE EndsLiteral(Tail(Tail(s)))

\* C19: in every query text built from the search terms (precise skills
\* query, fallback skills query, opportunity query) each term is embedded
\* with every single quote doubled, so that a term with a quote never ends
\* the string literal it is embedded in.
C19_TermsAreEscaped ==
    SearchRun =>
        \A k \in 1..Len(queries) :
            queries[k].query \in {"precise", "fallback", "opportunity"} =>
                /\ Len(queries[k].literals) = Len(SearchTerms(search_input))
                /\ \A i \in 1..Len(queries[k].literals) :
                       /\ queries[k].literals[i]
                              \in {EscapeQuotes(SearchTerms(search_input)[i]),
                                   EscapeQuotes(Upper(SearchTerms(search_input)[i]))}
                       /\ ~EndsLiteral(queries[k].literals[i])


---------------------------------------------------------------------------
(* Claims about the filters on the skills rows, checked under SpecFailures *)

\* one of the four raw manager-scored fields of the row holds a skill
HasManagerScoredSkill(row) ==
    \E c \in {"MGR_SCORE_SKILL_100", "MGR_SCORE_SKILL_200",
              "MGR_SCORE_SKILL_300", "MGR_SCORE_SKILL_400"} :
        /\ ~IsNull(row[c])
        /\ ParseArrayField(row[c]) # <<>>

\* C20: with the manager-endorsement filter on (and no other filter) an
\* expert is kept if and only if one of the raw manager-scored fields for
\* levels 100 to 400 of its record holds at least one skill; a record whose
\* four fields are null or an empty array, the text '[]' included, is
\* excluded, whatever the search terms and the matched skills.
C20_EndorsementNeedsASkill ==
    (SearchRun /\ main_pc = "shown"
        /\ filters = [NoFilters EXCEPT !.require_manager_endorsement = TRUE]) =>
        \A i \in 1..Len(freestyle_df) :
            ~IsNull(freestyle_df[i].EMPLOYEE_ID) =>
                ((\E k \in 1..Len(sorted_experts) :
                      sorted_experts[k].key = freestyle_df[i].EMPLOYEE_ID)
                 <=> (\E j \in 1..Len(freestyle_df) :
                          /\ freestyle_df[j].EMPLOYEE_ID = freestyle_df[i].EMPLOYEE_ID
                          /\ HasManagerScoredSkill(freestyle_df[j])))


---------------------------------------------------------------------------
(* Claims about the filters and the linking, checked under Spec *)

\* the skills row at position i passes the minimum skill level of the claim
PassesSkillLevel(i) ==
    CASE filters.min_skill_level = "High (300-400)" ->
             row_skills[i].high_proficiency # <<>>
      [] filters.min_skill_level = "Medium (200)" ->
             row_skills[i].medium_proficiency # <<>> \/ row_skills[i].high_proficiency # <<>>
      [] OTHER -> TRUE

ResultKeys == {sorted_experts[k].key : k \in 1..Len(sorted_experts)}

\* C21: the minimum skill level keeps an expert under "High" only if the
\* matched high bucket is non-empty, under "Medium" only if the matched
\* medium or high bucket is non-empty, and under "Any" and "Basic" always,
\* also when the three proficiency buckets are empty.
C21_MinimumSkillLevel ==
    (Searched /\ ActiveFilters(filters) \subseteq {"min_skill_level"}) =>
        /\ ResultKeys = {freestyle_df[i].EMPLOYEE_ID :
                             i \in {j \in 1..Len(freestyle_df) :
                                        /\ ~IsNull(freestyle_df[j].EMPLOYEE_ID)
                                        /\ PassesSkillLevel(j)}}
        /\ \A k \in 1..Len(sorted_experts) :
               LET s == sorted_experts[k].value.skills
               IN  /\ filters.min_skill_level = "High (300-400)" =>
                          s.high_proficiency # <<>>
                   /\ filters.min_skill_level = "Medium (200)" =>
                          s.medium_proficiency # <<>> \/ s.high_proficiency # <<>>

C21_Witness ==
    /\ Searched /\ filters = [NoFilters EXCEPT !.min_skill_level = "Basic (0-100)"]
    /\ \E k \in 1..Len(sorted_experts) :
           LET s == sorted_experts[k].value.skills
           IN  /\ s.high_proficiency = <<>> /\ s.medium_proficiency = <<>>
               /\ s.basic_proficiency = <<>>
               /\ s.specialties # <<>>


\* the experts left by the date range filter, without the score
WithoutScore(e) ==
    [key |-> e.key,
     value |-> [c \in DOMAIN e.value \ {"relevance_score"} |-> e.value[c]]]

\* C22: the industry filter keeps an expert whose observed industries share
\* an industry with the selected ones; with at least one industry selected
\* an expert with an empty industry set is removed; with none selected no
\* expert is removed.
C22_IndustryFilter ==
    Searched =>
        /\ {WithoutScore(sorted_experts[k]) : k \in 1..Len(sorted_experts)}
               = {date_filtered[i] : i \in
                      {j \in 1..Len(date_filtered) :
                           \/ filters.industry_filter = {}
                           \/ date_filtered[j].value.industries
                                  \cap filters.industry_filter # {}}}
        /\ filters.industry_filter # {} =>
               \A k \in 1..Len(sorted_experts) : sorted_experts[k].value.industries # {}
        /\ filters.industry_filter = {} => Len(sorted_experts) = Len(date_filtered)

C22_Witness ==
    /\ Searched /\ filters.industry_filter = {Technology}
    /\ Len(date_filtered) = 2 /\ Len(sorted_experts) = 1
    /\ \E i \in 1..Len(date_filtered) :
           /\ date_filtered[i].value.industries = {}
           /\ date_filtered[i].key \notin ResultKeys


---------------------------------------------------------------------------
(* Claims about the buckets of extract_relevant_skills, under SpecExtract *)

\* the bucket each field feeds
FedBucket(column) ==
    CASE column \in {"SELF_ASSESMENT_SKILL_300", "SELF_ASSESMENT_SKILL_400",
                     "MGR_SCORE_SKILL_200", "MGR_SCORE_SKILL_300", "MGR_SCORE_SKILL_400"}
             -> "high_proficiency"
      [] column \in {"SELF_ASSESMENT_SKILL_100", "SELF_ASSESMENT_SKILL_200",
                     "MGR_SCORE_SKILL_100"}
             -> "medium_proficiency"
      [] column \in {"SELF_ASSESMENT_SKILL_0", "SELF_ASSESMENT_SKILL_NULL",
                     "MGR_SCORE_SKILL_0", "MGR_SCORE_SKILL_NULL"}
             -> "basic_proficiency"
      [] column \in {"CERT_INTERNAL", "CERT_EXTERNAL"} -> "certifications"
      [] column = "SPECIALTIES" -> "specialties"

\* the non-empty elements of one field that contain a search term
MatchesOfColumn(column) ==
    {e \in Range(ParseArrayField(extract_row[column])) :
         /\ Len(e.val) > 0
         /\ \E i \in 1..Len(extract_terms) :
                Contains(Upper(e.val), Upper(extract_terms[i]))}

\* C23: each of the twelve skill fields feeds exactly one proficiency
\* bucket (high: self-assessed 300, 400 and manager-scored 200, 300, 400;
\* medium: self-assessed 100, 200 and manager-scored 100; basic: the levels 0
\* and unset of both); certifications and specialties feed their own bucket
\* by the same contains-match rule, whatever the proficiency buckets hold.
C23_FieldsFeedTheirBucket ==
    extract_pc = "returned" =>
        /\ DOMAIN extract_row
               = {"SELF_ASSESMENT_SKILL_NULL", "SELF_ASSESMENT_SKILL_0",
                  "SELF_ASSESMENT_SKILL_100", "SELF_ASSESMENT_SKILL_200",
                  "SELF_ASSESMENT_SKILL_300", "SELF_ASSESMENT_SKILL_400",
                  "MGR_SCORE_SKILL_NULL", "MGR_SCORE_SKILL_0", "MGR_SCORE_SKILL_100",
                  "MGR_SCORE_SKILL_200", "MGR_SCORE_SKILL_300", "MGR_SCORE_SKILL_400",
                  "CERT_INTERNAL", "CERT_EXTERNAL", "SPECIALTIES"}
        /\ \A k \in DOMAIN skills_found :
               Range(skills_found[k])
                   = UNION {MatchesOfColumn(c) : c \in {d \in DOMAIN extract_row :
                                                            FedBucket(d) = k}}

C23_Witness ==
    /\ extract_pc = "returned"
    /\ extract_terms = <<Txt_aws>>
    /\ extract_row["MGR_SCORE_SKILL_200"] = Str(Txt_bare_aws)
    /\ extract_row["CERT_EXTERNAL"] = Str(Txt_AWS_list)
    /\ skills_found.high_proficiency = <<Str(Txt_aws)>>
    /\ skills_found.medium_proficiency = <<>>
    /\ Len(skills_found.certifications) = 2


\* the roles the first n opportunity rows give to a user, in the order of the
\* rows, the lead role of a row before its owner role
RECURSIVE RolesOf(_, _)
RolesOf(user_id, n) ==
    IF n = 0 THEN <<>>
    ELSE RolesOf(user_id, n - 1)
             \o (IF salesforce_df[n].LEAD_SALES_ENGINEER_C = user_id
                 THEN <<[name |-> salesforce_df[n].OPPORTUNITY_NAME,
                         role |-> "Lead Sales Engineer"]>>
                 ELSE <<>>)
             \o (IF salesforce_df[n].OWNER_ID = user_id
                 THEN <<[name |-> salesforce_df[n].OPPORTUNITY_NAME,
                         role |-> "Opportunity Owner"]>>
                 ELSE <<>>)

RowsLedBy(user_id) ==
    {i \in 1..Len(salesforce_df) : salesforce_df[i].LEAD_SALES_ENGINEER_C = user_id}
RowsOwnedBy(user_id) ==
    {i \in 1..Len(salesforce_df) : salesforce_df[i].OWNER_ID = user_id}

\* C24: the linked opportunity list of every expert has one entry for each
\* opportunity row whose lead sales engineer is the expert's user and one for
\* each row whose owner is; a row with both is linked twice, once per role,
\* and scored twice. The entries are in the order of the opportunity rows.
C24_OneEntryPerRowAndRole ==
    Searched =>
        /\ \A i \in 1..Len(experts_data) :
               LET e == experts_data[i].value
                   linked == IF IsNull(e.user_id) THEN <<>>
                             ELSE RolesOf(e.user_id, Len(salesforce_df))
               IN  /\ Len(e.opportunities)
                          = IF IsNull(e.user_id) THEN 0
                            ELSE Cardinality(RowsLedBy(e.user_id))
                                     + Cardinality(RowsOwnedBy(e.user_id))
                   /\ [k \in 1..Len(e.opportunities) |->
                          [name |-> e.opportunities[k].name,
                           role |-> e.opportunities[k].role]] = linked
        /\ \A i \in 1..Len(sorted_experts) :
               LET e == sorted_experts[i].value
               IN  /\ e.opportunities = <<>> => IsNull(e.user_id) \/ RolesOf(e.user_id, Len(salesforce_df)) = <<>>
                   /\ OpportunityLocals(e.opportunities).opp_score >= 2 * Len(e.opportunities)

C24_Witness ==
    /\ Searched
    /\ Len(salesforce_df) = 2
    /\ \E i \in 1..Len(sorted_experts) :
          LET e == sorted_experts[i].value
          IN  /\ RowsLedBy(e.user_id) \cap RowsOwnedBy(e.user_id) # {}
              /\ Len(e.opportunities) = 3
              /\ e.opportunities[1].name # e.opportunities[3].name


\* the last opportunity row that names the user, as lead or as owner
LastRowOf(user_id) ==
    CHOOSE n \in RowsLedBy(user_id) \cup RowsOwnedBy(user_id) :
        \A k \in RowsLedBy(user_id) \cup RowsOwnedBy(user_id) : k <= n

\* C25: the opportunity count of an expert is the per-partition count of the
\* last opportunity row processed for its user, in the role of that row
\* (the owner role is written after the lead role of the same row); when the
\* user has one role only over all rows the count is the length of the linked
\* list; an expert matched by no row has the count 0.
C25_CountOfTheLastRow ==
    Searched =>
        \A i \in 1..Len(experts_data) :
            LET e == experts_data[i].value
                matched == /\ ~IsNull(e.user_id)
                           /\ RowsLedBy(e.user_id) \cup RowsOwnedBy(e.user_id) # {}
            IN  /\ ~matched => e.opportunity_count = 0
                /\ matched =>
                       LET last == salesforce_df[LastRowOf(e.user_id)]
                       IN  /\ e.opportunity_count
                                  = IF last.OWNER_ID = e.user_id
                                    THEN last.OWNER_OPPORTUNITY_COUNT
                                    ELSE last.SE_OPPORTUNITY_COUNT
                           /\ (RowsLedBy(e.user_id) = {} \/ RowsOwnedBy(e.user_id) = {})
                                  => e.opportunity_count = Len(e.opportunities)

\* an expert that leads two rows and owns one of them: three entries, count 1
C25_Witness ==
    /\ Searched
    /\ \E i \in 1..Len(experts_data) :
          LET e == experts_data[i].value
          IN  /\ Cardinality(RowsLedBy(e.user_id)) = 2
              /\ Cardinality(RowsOwnedBy(e.user_id)) = 1
              /\ Len(e.opportunities) = 3
              /\ e.opportunity_count < 3


---------------------------------------------------------------------------
(* Claims about the terms of the search, checked under SpecFailures *)

\* the run took its skills rows from the fallback query
FallbackUsed ==
    SearchRun /\ "precise" \in sql_errors /\ "fallback" \notin sql_errors

\* the rows the precise query's condition selects for the terms of the run
PreciseSelection ==
    {ToPandasRow(r) : r \in {s \in skills_table :
                                 PreciseWhere(s, SearchTerms(search_input))}}

NoEmptyTerm ==
    \A i \in 1..Len(SearchTerms(search_input)) : SearchTerms(search_input)[i] # <<>>

\* C26 as stated: for terms without comma every record the fallback query
\* selects is selected by the precise query's condition too.
C26_AsStated ==
    FallbackUsed =>
        /\ Range(freestyle_df) \subseteq PreciseSelection
        /\ Len(freestyle_df) <= FallbackLimit

\* C26: for terms that are not empty (and hold no comma and no LIKE wildcard)
\* every record the fallback query selects is selected by the precise query's
\* condition too: the fallback's rows are a subset of the precise matches, at
\* most 1000 of them.
C26_FallbackWithinPrecise ==
    (FallbackUsed /\ NoEmptyTerm) =>
        /\ Range(freestyle_df) \subseteq PreciseSelection
        /\ Len(freestyle_df) <= FallbackLimit

\* a fallback that returns one of the two records the precise query selects
C26_Witness ==
    /\ FallbackUsed /\ NoEmptyTerm
    /\ Len(freestyle_df) = 1
    /\ Cardinality(PreciseSelection) = 2
    /\ Range(freestyle_df) \subseteq PreciseSelection


\* the number of commas of the search input
Commas == Cardinality({i \in 1..Len(search_input) : search_input[i] = ","})

\* the terms the precise query was built from, as it embeds them
TermsOfPreciseQuery ==
    LET IsPrecise(q) == q.query = "precise"
    IN  SelectSeq(queries, IsPrecise)[1].literals

HasEmptyTerm ==
    \E i \in 1..Len(SearchTerms(search_input)) : SearchTerms(search_input)[i] = <<>>

\* the non-empty parsed elements of the fields of bucket k of skills row i
NonEmptyElements(i, k) ==
    {e \in UNION {Range(ParseArrayField(freestyle_df[i][c])) : c \in Range(BucketColumns[k])} :
         Len(e.val) > 0}

\* C27: the search string is split on commas and every piece is trimmed,
\* empty pieces staying in the list, so that an input ending in a comma gives
\* a term list with the empty string; with the empty string among the terms
\* every non-empty parsed element of every field of a record is placed in its
\* bucket, whatever the other terms are.
C27_EmptyTermSelectsEverything ==
    SearchRun =>
        /\ Len(TermsOfPreciseQuery) = Commas + 1
        /\ search_input[Len(search_input)] = "," =>
               TermsOfPreciseQuery[Len(TermsOfPreciseQuery)] = <<>>
        /\ \A t \in 1..Len(TermsOfPreciseQuery) :
               TermsOfPreciseQuery[t] = <<>> \/
                   /\ TermsOfPreciseQuery[t][1] \notin Whitespace
                   /\ TermsOfPreciseQuery[t][Len(TermsOfPreciseQuery[t])] \notin Whitespace
        /\ HasEmptyTerm =>
               \A i \in 1..Len(freestyle_df) :
                   ~IsNull(freestyle_df[i].EMPLOYEE_ID) =>
                       \A k \in BucketKeys :
                           Range(row_skills[i][k]) = NonEmptyElements(i, k)

\* the input "Spark," puts "Databricks SQL" into Bob's medium bucket
C27_Witness ==
    /\ SearchRun /\ HasEmptyTerm
    /\ \E i \in 1..Len(freestyle_df) :
           /\ row_skills[i].medium_proficiency = <<Str(Txt_Databricks_SQL)>>
           /\ Len(row_skills[i].specialties) = 2


\* the methods behind a search
SearchMethods == {"search_freestyle_experts", "search_salesforce_experts"}

\* C28: a failed search is memoized like a successful one: after a skills
\* search in which the precise and the fallback query raised, or an
\* opportunity search that raised, the empty result is stored, and a search
\* with the same term list within the window of 5 minutes returns the stored
\* empty result and executes no query, whatever the data source would answer.
C28_FailuresAreMemoized ==
    [][(CallMade /\ cache_call'.fn \in SearchMethods) =>
          LET call == cache_call'
          IN  /\ (call.executed # <<>> /\ call.result.failed) =>
                     \E e \in Stored(cache_store', call.fn, call.args) :
                         e.at = cache_now /\ e.result.failed
              /\ \A e \in StoredFor(call) :
                     (e.result.failed /\ cache_now - e.at < 5 * 60) =>
                         /\ call.executed = <<>>
                         /\ call.result.failed
                         /\ call.result.read_at = e.result.read_at
      ]_vars

\* a skills search answered with the empty result of a failure 150 seconds old
C28_Witness ==
    /\ cache_call.fn = "search_freestyle_experts"
    /\ cache_call.executed = <<>>
    /\ cache_call.result.failed
    /\ cache_now - cache_call.result.read_at = 150

===========================================================================
